---- MODULE Spec2Model ----
(***************************************************************************)
(* Event-ingestion and cache-consistency engine of the cloud service:      *)
(* the checkpointed poller (blockchain.py watch_events), the dispatcher,   *)
(* the membership indexes of the Redis store (db.py), the membership       *)
(* reconciler (sync_user_group_mappings) and the ETH price cache.          *)
(*                                                                         *)
(* Addresses are short sequences of characters, so that str.lower() is a   *)
(* real conversion: the chain delivers addresses in checksum (mixed) case, *)
(* db.py lower-cases them before it builds a key.                          *)
(***************************************************************************)
EXTENDS Integers, Sequences, FiniteSets, TLC

VARIABLES
    \* ---- the chain, as seen through web3 (the Chain Reader)
    height,                 \* web3.eth.block_number
    events,                 \* the logs emitted so far, in emission order
    isRegistered,           \* BettingGroup.isRegistered, per group contract
    participantAddresses,   \* BettingGroup.participantAddresses, per group contract
    \* ---- the Redis store (db.py)
    last_processed_block,   \* blockchain:last_processed_block
    known_betting_groups,   \* blockchain:known_betting_groups
    user_groups,            \* user:groups:<user>    as pairs <<user, group>>
    group_users,            \* group:<group>:users   as pairs <<group, user>>
    \* ---- the poller task (watch_events)
    STARTING_BLOCK,         \* config.STARTING_BLOCK, fixed when the service is set up
    pc,                     \* "boot" | "live" | "dead": where watch_events is
    current_block,          \* the local current_block of watch_events
    \* ---- observations of the last operation (history, not program state)
    handled,                \* indexes of the events passed to their handler
    first_start,            \* the start_block of the first bootstrap (None before it)
    last_tick,              \* what the last step of watch_events did
    last_sync,              \* what the last membership operation did
    \* ---- the price cache
    eth_price_cache,        \* the module-level dict {"price", "timestamp"}
    now,                    \* time.time(), in seconds
    last_price,             \* what the last get_eth_price_usd call did
    \* ---- the connection manager (websocket.py)
    active_connections,     \* ConnectionManager.active_connections, a list
    connection_count,       \* ConnectionManager.connection_count
    sock,                   \* per websocket: where its connect call is, what it
                            \* returned, what went over the transport
    dead,                   \* the websockets whose peer is gone: a send raises
    bc,                     \* the broadcast call in progress, or the last one
    cl,                     \* the clean_stale_connections call, likewise
    \* ---- the Redis store (db.py): contract records and their indexes
    known_tournaments,      \* blockchain:known_tournaments
    tournament_hash,        \* tournament:<address>          as pairs <<address, fields>>
    group_hash,             \* group:<address>               as pairs <<address, fields>>
    tournament_index,       \* tournament_index
    group_index,            \* group_index
    tournament_groups,      \* tournament:<address>:groups   as pairs <<tournament, group>>
    tournament_word,        \* tournament:word:<word>        as pairs <<word, address>>
    group_word,             \* group:word:<word>             as pairs <<word, address>>
    \* ---- observations (history, not program state)
    killed,                 \* the dispatch after which the process was last killed
    last_query,             \* what the last description search was given and returned
    last_admin,             \* what the last admin operation saw and reported
    co                      \* the coroutines in flight on the event loop

chain_vars == <<height, events, isRegistered, participantAddresses>>
member_vars == <<user_groups, group_users>>
store_vars == <<last_processed_block, known_betting_groups, user_groups, group_users>>
poller_vars == <<STARTING_BLOCK, pc, current_block, handled, first_start, last_tick>>
price_vars == <<eth_price_cache, now, last_price>>
ws_vars == <<active_connections, connection_count, sock, dead, bc, cl>>
catalog_vars == <<known_tournaments, tournament_hash, group_hash, tournament_index,
                  group_index, tournament_groups, tournament_word, group_word>>
hist_vars == <<killed, last_query, last_admin, co>>
vars == <<height, events, isRegistered, participantAddresses,
          last_processed_block, known_betting_groups, user_groups, group_users,
          STARTING_BLOCK, pc, current_block, handled, first_start, last_tick, last_sync,
          eth_price_cache, now, last_price,
          active_connections, connection_count, sock, dead, bc, cl,
          known_tournaments, tournament_hash, group_hash, tournament_index,
          group_index, tournament_groups, tournament_word, group_word,
          killed, last_query, last_admin, co>>

(***************************************************************************)
(* Addresses and str.lower()                                               *)
(***************************************************************************)
\* The user accounts of the chain, as web3 returns them (checksum case: an
\* address that holds a hex letter usually holds an upper-case one; one made
\* of digits and lower-case letters is its own lower-case form).
Users == { <<"A", "1">>, <<"b", "2">> }

\* An account that is not a participant of any group on chain, but whose address
\* a caller may still hand to db.py.
Strangers == { <<"C", "3">> }

\* The betting-group contracts the factory can create, as web3 returns them.
Groups == { <<"G", "7">>, <<"h", "8">> }

\* config.FACTORY_CONTRACT_ADDRESS
FACTORY_CONTRACT_ADDRESS == <<"F", "0">>

LowerChar(c) ==
    CASE c = "A" -> "a"
      [] c = "B" -> "b"
      [] c = "C" -> "c"
      [] c = "G" -> "g"
      [] c = "H" -> "h"
      [] c = "T" -> "t"
      [] c = "W" -> "w"
      [] OTHER -> c

\* str.lower()
lower(s) == [i \in DOMAIN s |-> LowerChar(s[i])]

LowerSet(S) == { lower(a) : a \in S }

Range(seq) == { seq[i] : i \in DOMAIN seq }

\* Python's None, where the code holds an optional number (a block height or a
\* price): heights are >= 0 and cached prices are > 0.
None == -1

(***************************************************************************)
(* db.py: the two mirrored membership indexes                              *)
(* A store value m is [user_groups |-> ..., group_users |-> ...].          *)
(***************************************************************************)
\* get_group_users: SMEMBERS group:<lower(group)>:users
get_group_users(m, group_address) ==
    { p[2] : p \in { q \in m.group_users : q[1] = lower(group_address) } }

\* get_user_groups: SMEMBERS user:groups:<lower(user)>
get_user_groups(m, user_address) ==
    { p[2] : p \in { q \in m.user_groups : q[1] = lower(user_address) } }

\* is_user_in_group: SISMEMBER user:groups:<lower(user)> lower(group)
is_user_in_group(m, user_address, group_address) ==
    <<lower(user_address), lower(group_address)>> \in m.user_groups

\* A slip that writes the forward index only.
add_user_to_group_forward_only(m, user_address, group_address) ==
    LET u == lower(user_address)
        g == lower(group_address)
    IN  IF <<u, g>> \in m.user_groups
        THEN [m |-> m, ret |-> FALSE]
        ELSE [m |-> [m EXCEPT !.user_groups = @ \cup {<<u, g>>}], ret |-> TRUE]

\* add_user_to_group: returns the store and the function's return value.
add_user_to_group(m, user_address, group_address) ==
    LET u == lower(user_address)
        g == lower(group_address)
        exists == <<u, g>> \in m.user_groups
    IN  IF exists
        THEN [m |-> m, ret |-> FALSE]
        ELSE [m |-> [user_groups |-> m.user_groups \cup {<<u, g>>},
                     group_users |-> m.group_users \cup {<<g, u>>}],
              ret |-> TRUE]

\* remove_user_from_group: returns the store and the function's return value.
remove_user_from_group(m, user_address, group_address) ==
    LET u == lower(user_address)
        g == lower(group_address)
        exists == <<u, g>> \in m.user_groups
    IN  IF ~exists
        THEN [m |-> m, ret |-> FALSE]
        ELSE [m |-> [user_groups |-> m.user_groups \ {<<u, g>>},
                     group_users |-> m.group_users \ {<<g, u>>}],
              ret |-> TRUE]

(***************************************************************************)
(* db.py: contract records, list-all indexes, registries and word indexes  *)
(* A catalog value c holds the eight key families as fields.               *)
(***************************************************************************)
\* The tournament contracts the factory can create, as web3 returns them.
Tournaments == { <<"T", "5">>, <<"t", "6">> }

\* The descriptions given to contracts: "W c" with two blanks between the
\* words, "c", "Wc" and a description of blanks only.
Descriptions == { <<"W", " ", " ", "c">>, <<"c">>, <<"W", "c">>, <<" ">> }

DigitChars == <<"0", "1", "2", "3", "4", "5", "6", "7", "8", "9">>

\* str(n) for an int n >= 0: its decimal digits.
RECURSIVE str(_)
str(n) ==
    IF n < 10 THEN <<DigitChars[n + 1]>>
    ELSE Append(str(n \div 10), DigitChars[(n % 10) + 1])

\* int(s) for a string of decimal digits.
RECURSIVE int(_)
int(s) ==
    LET DigitOf(ch) == (CHOOSE k \in DOMAIN DigitChars : DigitChars[k] = ch) - 1
    IN  IF Len(s) = 1 THEN DigitOf(s[1])
        ELSE 10 * int(SubSeq(s, 1, Len(s) - 1)) + DigitOf(s[Len(s)])

\* HexBytes.hex() of a transaction hash; a hash is modelled by the number of
\* the block that holds the transaction (one transaction per block).
hex(tx_hash) == <<"0", "x">> \o str(tx_hash)

\* str.split(): the maximal runs of non-blank characters, in order; word is the
\* run being read.
RECURSIVE split_words(_, _)
split_words(s, word) ==
    IF s = <<>>
    THEN IF word = <<>> THEN <<>> ELSE <<word>>
    ELSE IF Head(s) = " "
         THEN IF word = <<>>
              THEN split_words(Tail(s), <<>>)
              ELSE <<word>> \o split_words(Tail(s), <<>>)
         ELSE split_words(Tail(s), Append(word, Head(s)))

split(s) == split_words(s, <<>>)

\* An HSET that also counts, in the hash, the writes made to it.
hset_counting(hash, address, data) ==
    LET old == { x \in hash : x[1] = address }
        writes(fields) == IF "writes" \in DOMAIN fields THEN fields.writes ELSE 0
    IN  IF old = {}
        THEN hash \cup {<<address, [writes |-> 1] @@ data>>}
        ELSE (hash \ old) \cup { <<address, [writes |-> writes(x[2]) + 1] @@ data>> : x \in old }

\* HSET key mapping=data: the fields of data are set, the other fields of an
\* existing hash stay.
hset(hash, address, data) ==
    LET old == { x \in hash : x[1] = address }
        merged(fields) == [f \in DOMAIN fields \cup DOMAIN data |->
                              IF f \in DOMAIN data THEN data[f] ELSE fields[f]]
    IN  IF old = {}
        THEN hash \cup {<<address, data>>}
        ELSE (hash \ old) \cup { <<address, merged(x[2])>> : x \in old }

\* HGETALL key: the fields, or the empty mapping when there is no such hash.
hgetall(hash, address) ==
    IF \E x \in hash : x[1] = address
    THEN (CHOOSE x \in hash : x[1] = address)[2]
    ELSE <<>>

\* A word index that keeps the words in the letter case of the description.
index_words_raw_case(word_index, description, address) ==
    word_index \cup { <<w, address>> : w \in Range(split(description)) }

\* The "for word in description_words: sadd(<family>:word:<word>, address)" loop.
index_words(word_index, description, address) ==
    word_index \cup { <<w, address>> : w \in Range(split(lower(description))) }

\* A save_tournament that keeps the latest tournament only: the registry and the
\* records of the tournaments saved before are dropped.
save_tournament_latest_only(c, address, data) ==
    [c EXCEPT !.tournament_hash = {<<address, data>>},
              !.tournament_index = @ \cup {address},
              !.known_tournaments = {address},
              !.tournament_word =
                  IF "description" \in DOMAIN data
                  THEN index_words(@, data.description, address)
                  ELSE @]

\* save_tournament(address, data)
save_tournament(c, address, data) ==
    [c EXCEPT !.tournament_hash = hset(@, address, data),
              !.tournament_index = @ \cup {address},
              !.known_tournaments = @ \cup {address},
              !.tournament_word =
                  IF "description" \in DOMAIN data
                  THEN index_words(@, data.description, address)
                  ELSE @]

\* A save_group that leaves out the tournament-to-groups index.
save_group_without_back_reference(c, address, data) ==
    [c EXCEPT !.group_hash = hset(@, address, data),
              !.group_index = @ \cup {address},
              !.known_betting_groups = @ \cup {address},
              !.group_word =
                  IF "description" \in DOMAIN data
                  THEN index_words(@, data.description, address)
                  ELSE @]

\* save_group(address, data)
save_group(c, address, data) ==
    [c EXCEPT !.group_hash = hset(@, address, data),
              !.group_index = @ \cup {address},
              !.known_betting_groups = @ \cup {address},
              !.tournament_groups =
                  IF "tournament_address" \in DOMAIN data
                  THEN @ \cup {<<data.tournament_address, address>>}
                  ELSE @,
              !.group_word =
                  IF "description" \in DOMAIN data
                  THEN index_words(@, data.description, address)
                  ELSE @]

\* get_tournament / get_group: None (here the empty mapping) when no hash is stored.
get_tournament(c, address) == hgetall(c.tournament_hash, address)

get_group(c, address) == hgetall(c.group_hash, address)

\* smembers(<family>:word:<word>)
smembers_word(word_index, word) == { p[2] : p \in { q \in word_index : q[1] = word } }

\* A search that keeps the addresses every search word leads to.
RECURSIVE matching_addresses_of_all_words(_, _, _)
matching_addresses_of_all_words(word_index, search_words, matching_addresses) ==
    IF search_words = <<>>
    THEN matching_addresses
    ELSE matching_addresses_of_all_words(word_index, Tail(search_words),
             IF matching_addresses = {}
             THEN smembers_word(word_index, Head(search_words))
             ELSE matching_addresses \cap smembers_word(word_index, Head(search_words)))

\* Lines 185-191 and 213-219: the union of the word sets of the search words.
RECURSIVE matching_addresses_of(_, _, _)
matching_addresses_of(word_index, search_words, matching_addresses) ==
    IF search_words = <<>>
    THEN matching_addresses
    ELSE matching_addresses_of(word_index, Tail(search_words),
             matching_addresses \cup smembers_word(word_index, Head(search_words)))

\* The result list of a search, as the set of its entries and its length: an
\* entry is the stored mapping with the key "address" added.
with_address(data, address) ==
    [f \in DOMAIN data \cup {"address"} |->
        IF f = "address" THEN address ELSE data[f]]

\* search_tournaments_by_description(search_term)
search_tournaments_by_description(c, search_term) ==
    LET search_words == split(lower(search_term))
        matching_addresses == matching_addresses_of(c.tournament_word, search_words, {})
        found == { a \in matching_addresses : get_tournament(c, a) # <<>> }
    IN  IF search_words = <<>>
        THEN [len |-> 0, result |-> {}]
        ELSE [len |-> Cardinality(found),
              result |-> { with_address(get_tournament(c, a), a) : a \in found }]

\* search_groups_by_description(search_term)
search_groups_by_description(c, search_term) ==
    LET search_words == split(lower(search_term))
        matching_addresses == matching_addresses_of(c.group_word, search_words, {})
        found == { a \in matching_addresses : get_group(c, a) # <<>> }
    IN  IF search_words = <<>>
        THEN [len |-> 0, result |-> {}]
        ELSE [len |-> Cardinality(found),
              result |-> { with_address(get_group(c, a), a) : a \in found }]

(***************************************************************************)
(* blockchain.py: the membership reconciler                                *)
(***************************************************************************)
\* A fetch loop that gives up at the first index whose read raised.
RECURSIVE fetch_participants_until_failure(_, _, _)
fetch_participants_until_failure(group_address, i, failed) ==
    IF i > Len(participantAddresses[group_address]) \/ i \in failed
    THEN <<>>
    ELSE LET participant_address == participantAddresses[group_address][i]
             rest == fetch_participants_until_failure(group_address, i + 1, failed)
         IN  IF participant_address \in isRegistered[group_address]
             THEN <<participant_address>> \o rest
             ELSE rest

\* Lines 821-832: the registered participants, index by index; an index whose
\* read raised (i \in failed) is skipped. Python's index i is i + 1 here.
RECURSIVE fetch_participants(_, _, _)
fetch_participants(group_address, i, failed) ==
    IF i > Len(participantAddresses[group_address])
    THEN <<>>
    ELSE LET participant_address == participantAddresses[group_address][i]
             is_registered == participant_address \in isRegistered[group_address]
             rest == fetch_participants(group_address, i + 1, failed)
         IN  IF i \notin failed /\ is_registered
             THEN <<participant_address>> \o rest
             ELSE rest

\* Lines 834-838: add every participant found; r.adds counts the calls that returned True.
RECURSIVE ensure_participants(_, _, _)
ensure_participants(r, participants, group_address) ==
    IF participants = <<>>
    THEN r
    ELSE LET a == add_user_to_group(r.m, Head(participants), group_address)
         IN  ensure_participants(
                 [r EXCEPT !.m = a.m, !.adds = @ + (IF a.ret THEN 1 ELSE 0)],
                 Tail(participants), group_address)

\* Lines 846-849: remove every cached user that is not in the participants list;
\* r.removes counts the calls of remove_user_from_group.
RECURSIVE remove_stale(_, _, _, _)
remove_stale(r, all_users_in_group, participants, group_address) ==
    IF all_users_in_group = {}
    THEN r
    ELSE LET user == CHOOSE x \in all_users_in_group : TRUE
             d == remove_user_from_group(r.m, user, group_address)
             r2 == IF user \notin Range(participants)
                   THEN [r EXCEPT !.m = d.m, !.removes = @ + 1]
                   ELSE r
         IN  remove_stale(r2, all_users_in_group \ {user}, participants, group_address)

\* sync_user_group_mappings(group_address). count_ok = FALSE: the contract handle or
\* participantCount() raised, the outer handler returns False with nothing written.
sync_user_group_mappings(m, group_address, count_ok, failed) ==
    IF ~count_ok
    THEN [m |-> m, ok |-> FALSE, adds |-> 0, removes |-> 0]
    ELSE LET participants == fetch_participants(group_address, 1, failed)
             added == ensure_participants([m |-> m, ok |-> TRUE, adds |-> 0, removes |-> 0],
                                          participants, group_address)
             all_users_in_group == get_group_users(added.m, group_address)
         IN  remove_stale(added, all_users_in_group, participants, group_address)

(***************************************************************************)
(* The group contracts (the chain side of the Chain Reader)                *)
(***************************************************************************)
\* register(): the account is flagged registered and, the first time, appended
\* to the participants array.
chain_register(reg, parts, u, g) ==
    [reg |-> [reg EXCEPT ![g] = @ \cup {u}],
     parts |-> IF u \in Range(parts[g]) THEN parts
               ELSE [parts EXCEPT ![g] = Append(@, u)]]

\* withdraw(): the flag is cleared, the array keeps the account.
chain_withdraw(reg, parts, u, g) ==
    [reg |-> [reg EXCEPT ![g] = @ \ {u}], parts |-> parts]

\* The letter cases in which a caller may hand an address to db.py.
AnyCase(S) == S \cup LowerSet(S)

\* The model's bound on the chain: blocks mined (one transaction per block).
MaxBlock == 3

\* The blocks mined while the contract records and the event stream are studied.
MaxCatalogBlock == 2

\* The bound on the blocks mined while the reconciler is studied on its own.
MaxSyncBlock == 2

\* The number of consecutive clean passes the history counts up to.
MaxStreak == 2

no_sync == [op |-> "other", group |-> <<>>, user |-> <<>>, ok |-> TRUE, clean |-> TRUE,
            adds |-> 0, removes |-> 0, streak |-> 0, failed |-> {}]

store == [user_groups |-> user_groups, group_users |-> group_users]

InitChain ==
    /\ height = 0
    /\ events = <<>>
    /\ isRegistered = [g \in Groups |-> {}]
    /\ participantAddresses = [g \in Groups |-> <<>>]

InitStore ==
    /\ last_processed_block = None
    /\ known_betting_groups = {}
    /\ user_groups = {}
    /\ group_users = {}

\* The values of config.STARTING_BLOCK tried: last block only, genesis, block 1.
StartingBlocks == {-1, 0, 1}

\* last_tick is the last dispatch watch_events made: "boot" and "ok" returned
\* with no RPC failure, "degraded" returned with a failure swallowed on the way,
\* "error" and "boot_failed" raised.
\* retry: the dispatch started where a tick that raised had started.
\* out: the envelopes the step emitted through
\* active_ws_manager.broadcast_blockchain_event, in order.
\* fault: the kind of RPC call that raised during the dispatch, "none" if none.
\* synced: the reconciler invocations of the dispatch, each with the events
\* that had been handled when it was made.
\* trace: the queries issued and the events handled by the dispatch, in order.
no_tick == [kind |-> "none", from |-> 0, to |-> -1, retry |-> FALSE, out |-> <<>>,
            fault |-> "none", synced |-> {}, trace |-> <<>>]

InitPoller ==
    /\ STARTING_BLOCK \in StartingBlocks
    /\ pc = "boot"
    /\ current_block = 0
    /\ handled = {}
    /\ first_start = None
    /\ last_tick = no_tick

\* last_price is what the last get_eth_price_usd call saw and did: the cache
\* and the clock it started with, whether every response it could get was a
\* failure, what it returned, the requests it issued, the seconds it slept.
\* first_ok is the attempt (1..3) whose response was the first to hold a price,
\* 0 when none did.
no_price_call ==
    [called |-> FALSE, before |-> [price |-> None, timestamp |-> 0], at |-> 0,
     all_failed |-> FALSE, first_ok |-> 0, result |-> None, requests |-> 0,
     slept |-> 0]

InitPrice ==
    /\ eth_price_cache = [price |-> None, timestamp |-> 0]
    /\ now = 0
    /\ last_price = no_price_call

\* The websockets that clients open over a run, numbered in the order of their
\* connect calls; a WebSocket object is one connection and is handed to connect
\* once.
Sockets == {1, 2, 3}

\* The number of peers that go away without a disconnect.
MaxGone == 1

\* ConnectionManager.MAX_CONNECTIONS is 100 in websocket.py; the model keeps the
\* code's comparisons and runs them with a cap of 2.
MAX_CONNECTIONS == 2

no_call == [pc |-> "idle", i |-> 0, disconnected |-> <<>>, start |-> {},
            attempted |-> {}, delivered |-> {}]

no_sweep == [pc |-> "idle", i |-> 0, disconnected |-> <<>>]

InitWs ==
    /\ active_connections = <<>>
    /\ connection_count = 0
    /\ sock = [w \in Sockets |-> [pc |-> "new", ret |-> "pending",
                                  at_cap |-> FALSE, wire |-> <<>>]]
    /\ dead = {}
    /\ bc = no_call
    /\ cl = no_sweep

\* No dispatch was killed, no search and no admin operation made, no coroutine
\* in flight.
no_kill == [from |-> 0, to |-> -1]

no_query == [family |-> "none", search_term |-> <<>>, len |-> 0, result |-> {}]

no_admin == [op |-> "none"]

InitCatalog ==
    /\ known_tournaments = {}
    /\ tournament_hash = {}
    /\ group_hash = {}
    /\ tournament_index = {}
    /\ group_index = {}
    /\ tournament_groups = {}
    /\ tournament_word = {}
    /\ group_word = {}

InitHist ==
    /\ killed = no_kill
    /\ last_query = no_query
    /\ last_admin = no_admin
    /\ co = <<>>

Init ==
    /\ InitChain
    /\ InitStore
    /\ InitPoller
    /\ InitPrice
    /\ InitWs
    /\ InitCatalog
    /\ InitHist
    /\ last_sync = no_sync

(***************************************************************************)
(* SpecSync: the membership indexes under add, remove and reconciliation   *)
(***************************************************************************)
\* A block is mined in which u registers in g.
SyncChainRegister(u, g) ==
    /\ height < MaxSyncBlock
    /\ u \notin isRegistered[g]
    /\ LET c == chain_register(isRegistered, participantAddresses, u, g)
       IN  /\ isRegistered' = c.reg
           /\ participantAddresses' = c.parts
    /\ height' = height + 1
    /\ last_sync' = no_sync
    /\ UNCHANGED <<events, store_vars, poller_vars, price_vars, ws_vars, catalog_vars, hist_vars>>

\* A block is mined in which u withdraws from g.
SyncChainWithdraw(u, g) ==
    /\ height < MaxSyncBlock
    /\ u \in isRegistered[g]
    /\ LET c == chain_withdraw(isRegistered, participantAddresses, u, g)
       IN  /\ isRegistered' = c.reg
           /\ participantAddresses' = c.parts
    /\ height' = height + 1
    /\ last_sync' = no_sync
    /\ UNCHANGED <<events, store_vars, poller_vars, price_vars, ws_vars, catalog_vars, hist_vars>>

\* A caller (an event handler, the admin verify endpoint) adds a membership.
DbAdd(u, g) ==
    /\ LET a == add_user_to_group(store, u, g)
       IN  /\ user_groups' = a.m.user_groups
           /\ group_users' = a.m.group_users
    /\ last_sync' = no_sync
    /\ UNCHANGED <<chain_vars, last_processed_block, known_betting_groups,
                   poller_vars, price_vars, ws_vars, catalog_vars, hist_vars>>

\* A caller removes a membership.
DbRemove(u, g) ==
    /\ LET d == remove_user_from_group(store, u, g)
       IN  /\ user_groups' = d.m.user_groups
           /\ group_users' = d.m.group_users
    /\ last_sync' = no_sync
    /\ UNCHANGED <<chain_vars, last_processed_block, known_betting_groups,
                   poller_vars, price_vars, ws_vars, catalog_vars, hist_vars>>

\* One reconciliation pass for g; count_ok and failed are the RPC failures met.
SyncPass(g, count_ok, failed) ==
    /\ LET r == sync_user_group_mappings(store, g, count_ok, failed)
           clean == count_ok /\ failed = {}
           again == last_sync.op = "sync" /\ last_sync.group = g /\ last_sync.clean
       IN  /\ user_groups' = r.m.user_groups
           /\ group_users' = r.m.group_users
           /\ last_sync' = [op |-> "sync", group |-> g, user |-> <<>>, ok |-> r.ok,
                            clean |-> clean, adds |-> r.adds, removes |-> r.removes,
                            streak |-> IF ~clean THEN 0
                                       ELSE IF again /\ last_sync.streak < MaxStreak
                                            THEN last_sync.streak + 1
                                       ELSE IF again THEN MaxStreak ELSE 1,
                            failed |-> failed]
    /\ UNCHANGED <<chain_vars, last_processed_block, known_betting_groups,
                   poller_vars, price_vars, ws_vars, catalog_vars, hist_vars>>

\* The RPC failures of one pass: none, participantCount() raising, or the read
\* of one index raising.
NextSync ==
    \/ \E u \in Users, g \in Groups : SyncChainRegister(u, g)
    \/ \E u \in Users, g \in Groups : SyncChainWithdraw(u, g)
    \/ \E u \in AnyCase(Users \cup Strangers), g \in AnyCase(Groups) : DbAdd(u, g)
    \/ \E u \in AnyCase(Users \cup Strangers), g \in AnyCase(Groups) : DbRemove(u, g)
    \/ \E g \in Groups : SyncPass(g, TRUE, {})
    \/ \E g \in Groups : SyncPass(g, FALSE, {})
    \/ \E g \in Groups : \E i \in 1..Len(participantAddresses[g]) : SyncPass(g, TRUE, {i})

InitSync == Init /\ STARTING_BLOCK = 0

SpecSync == InitSync /\ [][NextSync]_vars

\* C5 (as claimed): after a pass with no read failure the cached member set of
\* the group is exactly the lower-cased set of the accounts registered on chain.
C5_ReconcilerConverges ==
    (last_sync.op = "sync" /\ last_sync.clean) =>
        get_group_users(store, last_sync.group)
            = LowerSet(isRegistered[last_sync.group])

\* C6 (as claimed): a clean pass that directly follows a clean pass for the same
\* group, with no chain change and no other write in between, is a no-op: no add
\* that changes the cache, no remove, both indexes as they were.
C6_SecondPassIsNoOp ==
    [][ ( /\ last_sync.op = "sync" /\ last_sync.clean
          /\ last_sync'.op = "sync" /\ last_sync'.clean
          /\ last_sync'.group = last_sync.group )
        => ( /\ last_sync'.adds = 0
             /\ last_sync'.removes = 0
             /\ user_groups' = user_groups
             /\ group_users' = group_users ) ]_vars

\* C7: the forward and the reverse index agree on every pair, for addresses in
\* any letter case: g is among the groups of u iff u is among the users of g.
C7_IndexesMirror ==
    \A u \in AnyCase(Users \cup Strangers), g \in AnyCase(Groups) :
        (lower(g) \in get_user_groups(store, u))
            <=> (lower(u) \in get_group_users(store, g))

\* C7 witness: a pass has just removed a stale member and kept others, in a
\* store that holds memberships of both groups.
C7_Witness ==
    /\ last_sync.op = "sync"
    /\ last_sync.removes > 0
    /\ \A g \in Groups : get_group_users(store, g) # {}

(***************************************************************************)
(* The chain: one transaction per block                                    *)
(***************************************************************************)
created_groups == { events[i].group : i \in { j \in DOMAIN events :
                                                events[j].kind = "BettingGroupCreated" } }

created_tournaments == { events[i].tournament : i \in { j \in DOMAIN events :
                                                events[j].kind = "TournamentCreated" } }

log(kind, g, u) == [block |-> height + 1, kind |-> kind, group |-> g, user |-> u]

\* The contract that emitted a log.
emitter(e) ==
    CASE e.kind \in {"TournamentCreated", "BettingGroupCreated"} -> FACTORY_CONTRACT_ADDRESS
      [] e.kind = "BettingOpportunityStartTimeUpdated" -> e.tournament
      [] OTHER -> e.group

\* event['transactionHash'] of a log: one transaction per block.
transactionHash(e) == e.block

\* The factory creates tournament t and emits TournamentCreated.
MineCreateTournament(t, description, bettingOpportunities) ==
    /\ height < MaxCatalogBlock
    /\ t \notin created_tournaments
    /\ height' = height + 1
    /\ events' = Append(events,
                    [block |-> height + 1, kind |-> "TournamentCreated",
                     group |-> <<>>, user |-> <<>>, tournament |-> t,
                     description |-> description,
                     startTime |-> 1000 + height, endTime |-> 2000 + height,
                     bettingOpportunities |-> bettingOpportunities])
    /\ UNCHANGED <<isRegistered, participantAddresses, store_vars, poller_vars,
                   last_sync, price_vars, ws_vars, catalog_vars, hist_vars>>

\* Tournament t emits BettingOpportunityStartTimeUpdated.
MineStartTimeUpdated(t) ==
    /\ height < MaxCatalogBlock
    /\ t \in created_tournaments
    /\ height' = height + 1
    /\ events' = Append(events,
                    [block |-> height + 1, kind |-> "BettingOpportunityStartTimeUpdated",
                     group |-> <<>>, user |-> <<>>, tournament |-> t,
                     id |-> 0, startTime |-> 3000 + height])
    /\ UNCHANGED <<isRegistered, participantAddresses, store_vars, poller_vars,
                   last_sync, price_vars, ws_vars, catalog_vars, hist_vars>>

\* The factory creates betting group g for tournament t and emits BettingGroupCreated.
MineCreateGroup(g, t, description) ==
    /\ height < MaxBlock
    /\ g \notin created_groups
    /\ height' = height + 1
    /\ events' = Append(events,
                    [block |-> height + 1, kind |-> "BettingGroupCreated",
                     group |-> g, user |-> <<>>, tournament |-> t,
                     description |-> description,
                     registrationEndTime |-> 1500 + height,
                     prizeDistribution |-> <<60, 40>>,
                     generalClosingWindowInSeconds |-> 60])
    /\ UNCHANGED <<isRegistered, participantAddresses, store_vars, poller_vars,
                   last_sync, price_vars, ws_vars, catalog_vars, hist_vars>>

\* Group g emits ResultsProcessed, BettingGroupFinalized or BettingGroupCancelled.
MineGroupEvent(kind, g) ==
    /\ height < MaxCatalogBlock
    /\ g \in created_groups
    /\ height' = height + 1
    /\ events' = Append(events, log(kind, g, <<>>))
    /\ UNCHANGED <<isRegistered, participantAddresses, store_vars, poller_vars,
                   last_sync, price_vars, ws_vars, catalog_vars, hist_vars>>

\* u registers in g, which emits ParticipantRegistered.
MineRegister(u, g) ==
    /\ height < MaxBlock
    /\ g \in created_groups
    /\ u \notin isRegistered[g]
    /\ height' = height + 1
    /\ events' = Append(events, log("ParticipantRegistered", g, u))
    /\ LET c == chain_register(isRegistered, participantAddresses, u, g)
       IN  /\ isRegistered' = c.reg
           /\ participantAddresses' = c.parts
    /\ UNCHANGED <<store_vars, poller_vars, last_sync, price_vars, ws_vars, catalog_vars, hist_vars>>

\* u withdraws from g, which emits ParticipantWithdrawn.
MineWithdraw(u, g) ==
    /\ height < MaxBlock
    /\ u \in isRegistered[g]
    /\ height' = height + 1
    /\ events' = Append(events, log("ParticipantWithdrawn", g, u))
    /\ LET c == chain_withdraw(isRegistered, participantAddresses, u, g)
       IN  /\ isRegistered' = c.reg
           /\ participantAddresses' = c.parts
    /\ UNCHANGED <<store_vars, poller_vars, last_sync, price_vars, ws_vars, catalog_vars, hist_vars>>

(***************************************************************************)
(* main.py, websocket.py: the event stream                                 *)
(***************************************************************************)
\* active_ws_manager.broadcast_blockchain_event, which hands its arguments to
\* main.broadcast_blockchain_event (registered by main.py when it is imported):
\* the envelope is built and given to sio.emit; out is what was emitted so far.
\* An f-string message is the pair of its text and the values put into it.
broadcast_blockchain_event(out, event_type, message, data) ==
    LET event == [id |-> <<"event-", now>>, type |-> event_type,
                  message |-> message, timestamp |-> now * 1000]
    IN  Append(out, IF DOMAIN data # {} THEN [data |-> data] @@ event ELSE event)

(***************************************************************************)
(* blockchain.py: the ETH price and the gas information of a transaction   *)
(***************************************************************************)
ETH_PRICE_CACHE_DURATION == 600
max_retries == 3
retry_delay == 5

MaxNow == 600
Prices == {1, 2}
TimeSteps == {ETH_PRICE_CACHE_DURATION - 1, ETH_PRICE_CACHE_DURATION}

\* What requests.get can yield for one attempt: status 0 is no response at all
\* (connection error, timeout), 429 rate limiting, 500 an HTTP error, 200 a
\* payload that lacks the ethereum.usd key, or holds a value that is not a
\* positive number (0 here), or holds a price.
Responses ==
    { [status |-> st, has_usd |-> FALSE, usd |-> 0] : st \in {0, 429, 500, 200} }
    \cup { [status |-> 200, has_usd |-> TRUE, usd |-> p] : p \in {0} \cup Prices }

ResponseSeqs == [1..max_retries -> Responses]

\* Two values response.json() can hold under ethereum.usd besides the numbers
\* above: float('nan'), which json.loads yields for the token NaN, and a str.
\* They stand outside the numbers of the model.
NaN == -2
Text == -3

\* isinstance(price, (int, float))
isinstance_int_float(price) == price # Text

\* price <= 0 as Python evaluates it for an int or a float: every comparison
\* with NaN is False.
le_zero(price) == price # NaN /\ price <= 0

\* Line 97: "if not isinstance(price, (int, float)) or price <= 0", on which
\* the ValueError is raised.
invalid_price(price) == ~isinstance_int_float(price) \/ le_zero(price)

\* A number greater than zero.
positive_number(price) == price \notin {NaN, Text} /\ price > 0

\* An attempt that raised: a response from which the code takes no price.
is_failure(r) == r.status # 200 \/ ~r.has_usd \/ invalid_price(r.usd)

every_attempt_fails(responses) ==
    \A i \in DOMAIN responses : is_failure(responses[i])

\* The first attempt whose response holds a price, 0 when there is none.
first_valid(responses) ==
    IF every_attempt_fails(responses) THEN 0
    ELSE CHOOSE i \in DOMAIN responses :
            /\ ~is_failure(responses[i])
            /\ \A j \in 1..(i - 1) : is_failure(responses[j])

cache_valid_when_expired(cache, current_time) ==
    /\ cache.price # None
    /\ current_time - cache.timestamp >= ETH_PRICE_CACHE_DURATION

cache_valid(cache, current_time) ==
    /\ cache.price # None
    /\ current_time - cache.timestamp < ETH_PRICE_CACHE_DURATION

\* The retry loop with the same sleep before every retry.
RECURSIVE fetch_attempts_fixed_delay(_, _, _, _)
fetch_attempts_fixed_delay(attempt, responses, requests, slept) ==
    LET slept1 == IF attempt > 0 THEN slept + retry_delay ELSE slept
        r == responses[attempt + 1]
    IN  IF r.status = 200 /\ r.has_usd /\ r.usd > 0
        THEN [fetched |-> TRUE, price |-> r.usd,
              requests |-> requests + 1, slept |-> slept1]
        ELSE IF attempt = max_retries - 1
             THEN [fetched |-> FALSE, price |-> None,
                   requests |-> requests + 1, slept |-> slept1]
             ELSE fetch_attempts_fixed_delay(attempt + 1, responses,
                                             requests + 1, slept1)

\* One pass of the retry loop from the given attempt on; the result says whether
\* a price was fetched, the requests issued and the seconds slept.
RECURSIVE fetch_attempts(_, _, _, _)
fetch_attempts(attempt, responses, requests, slept) ==
    LET slept1 == IF attempt > 0 THEN slept + retry_delay * attempt ELSE slept
        r == responses[attempt + 1]
        last == attempt = max_retries - 1
        give_up == [fetched |-> FALSE, price |-> None,
                    requests |-> requests + 1, slept |-> slept1]
        again == IF last THEN give_up
                 ELSE fetch_attempts(attempt + 1, responses, requests + 1, slept1)
    IN  IF r.status = 0 THEN again              \* requests.get raised
        ELSE IF r.status = 429 THEN again       \* continue, or raise on the last
        ELSE IF r.status # 200 THEN again       \* raise_for_status
        ELSE IF ~r.has_usd THEN again           \* ValueError: format
        ELSE IF invalid_price(r.usd) THEN again \* ValueError: value
        ELSE [fetched |-> TRUE, price |-> r.usd,
              requests |-> requests + 1, slept |-> slept1]

fallback_unavailable(cache) == None

\* A fallback that reports a price of its own when none was ever cached.
fallback_default_price(cache) ==
    IF cache.price # None THEN cache.price ELSE 1

fallback(cache) ==
    IF cache.price # None THEN cache.price ELSE None

get_eth_price_usd(cache, current_time, responses) ==
    IF cache_valid(cache, current_time)
    THEN [cache |-> cache, result |-> cache.price, requests |-> 0, slept |-> 0]
    ELSE LET f == fetch_attempts(0, responses, 0, 0)
         IN  IF f.fetched
             THEN [cache |-> [price |-> f.price, timestamp |-> current_time],
                   result |-> f.price, requests |-> f.requests, slept |-> f.slept]
             ELSE [cache |-> cache, result |-> fallback(cache),
                   requests |-> f.requests, slept |-> f.slept]

\* The outcomes of n successive calls of get_eth_price_usd that get the same
\* replies: what each returns, and the cache and the clock it leaves.
RECURSIVE price_calls(_, _, _, _)
price_calls(cache, current_time, responses, n) ==
    IF n = 0
    THEN <<>>
    ELSE LET p == get_eth_price_usd(cache, current_time, responses)
         IN  <<[result |-> p.result, cache |-> p.cache, now |-> current_time + p.slept]>>
                 \o price_calls(p.cache, current_time + p.slept, responses, n - 1)

\* get_transaction_gas_info(tx_hash) in the environment d.gas of the dispatch:
\* ok says whether the receipt and the transaction can be read, calls holds the
\* outcomes of the price calls the dispatch has still to make. Any exception gives
\* None, here the empty mapping; a price that is None or 0 gives a gas_cost_usd
\* of None. The cost of a transaction is one unit of ETH.
get_transaction_gas_info(d, tx_hash) ==
    IF ~d.gas.ok
    THEN [d |-> d, gas_info |-> <<>>]
    ELSE LET p == Head(d.gas.calls)
             eth_price_usd == p.result
             gas_cost_usd == IF eth_price_usd \in {None, 0} THEN None
                             ELSE IF eth_price_usd = NaN THEN NaN
                             ELSE 1 * eth_price_usd
         IN  [d |-> [d EXCEPT !.gas = [ok |-> TRUE, calls |-> Tail(d.gas.calls),
                                       cache |-> p.cache, now |-> p.now]],
              gas_info |-> [gas_cost_eth |-> 1,
                            gas_cost_usd |-> gas_cost_usd,
                            eth_price_usd |-> eth_price_usd]]

\* 'if gas_info: broadcast_data["gas_info"] = gas_info'
with_gas_info(broadcast_data, gas_info) ==
    IF gas_info # <<>> THEN [gas_info |-> gas_info] @@ broadcast_data
    ELSE broadcast_data

(***************************************************************************)
(* blockchain.py: the dispatcher                                           *)
(* A dispatch works on d: the contract records and registries (c), the     *)
(* membership indexes (m), the events passed to a handler so far (handled),*)
(* the reconciler invocations (synced), the envelopes emitted (out) and    *)
(* the queries issued and events handled, in order (trace).                *)
(***************************************************************************)
\* <contract>.events.<kind>.get_logs(fromBlock, toBlock): the indexes of the
\* matching logs of the contract, in emission order.
get_logs(kind, address, from_block, to_block) ==
    LET Match(i) == /\ events[i].kind = kind
                    /\ events[i].block >= from_block
                    /\ events[i].block <= to_block
                    /\ emitter(events[i]) = address
    IN  SelectSeq([i \in 1..Len(events) |-> i], Match)

\* The trace entry of a get_logs call; ok says whether it returned.
queried(d, kind, address, ok) ==
    [d EXCEPT !.trace = Append(@, [op |-> "query", kind |-> kind,
                                   address |-> address, ok |-> ok])]

\* is_user_registered_in_group_blockchain: the isRegistered view call.
is_user_registered_in_group_blockchain(user_address, group_address) ==
    user_address \in isRegistered[group_address]

\* process_participant_registered: the index write, the verification, one retry.
process_participant_registered(m, group_address, participant_address) ==
    LET first == add_user_to_group(m, participant_address, group_address).m
        is_registered ==
            is_user_registered_in_group_blockchain(participant_address, group_address)
    IN  IF is_registered
        THEN first
        ELSE add_user_to_group(first, participant_address, group_address).m

\* process_participant_withdrawn: the index removal, the verification, one retry.
process_participant_withdrawn(m, group_address, participant_address) ==
    LET first == remove_user_from_group(m, participant_address, group_address).m
        is_registered ==
            is_user_registered_in_group_blockchain(participant_address, group_address)
    IN  IF ~is_registered
        THEN first
        ELSE remove_user_from_group(first, participant_address, group_address).m

\* The event_type each handler of a contract's own events broadcasts.
event_type_of(kind) ==
    CASE kind = "TournamentCreated" -> "tournament"
      [] kind = "BettingGroupCreated" -> "group"
      [] kind = "BettingOpportunityStartTimeUpdated" -> "betting_opportunity_updated"
      [] kind = "ParticipantRegistered" -> "participant_registered"
      [] kind = "ParticipantWithdrawn" -> "participant_withdrawn"
      [] kind = "ResultsProcessed" -> "results_processed"
      [] kind = "BettingGroupFinalized" -> "betting_group_finalized"
      [] kind = "BettingGroupCancelled" -> "betting_group_cancelled"

\* A start-time handler that writes the new start time into the stored record.
handle_event_persisting_start_time(d, address, i) ==
    LET e == events[i]
        g == get_transaction_gas_info(d, transactionHash(e))
        m2 == IF e.kind = "ParticipantRegistered"
              THEN process_participant_registered(d.m, address, e.user)
              ELSE IF e.kind = "ParticipantWithdrawn"
              THEN process_participant_withdrawn(d.m, address, e.user)
              ELSE d.m
        data == IF e.kind \in {"ParticipantRegistered", "ParticipantWithdrawn"}
                THEN [group |-> [address |-> address], participant |-> e.user,
                      tx_hash |-> hex(transactionHash(e)), block_number |-> e.block]
                ELSE IF e.kind = "BettingOpportunityStartTimeUpdated"
                THEN [tournament |-> [address |-> address],
                      bet_id |-> e.id, start_time |-> e.startTime,
                      tx_hash |-> hex(transactionHash(e))]
                ELSE [group |-> [address |-> address],
                      tx_hash |-> hex(transactionHash(e))]
    IN  [g.d EXCEPT !.m = m2,
                  !.c = IF e.kind = "BettingOpportunityStartTimeUpdated"
                        THEN [@ EXCEPT !.tournament_hash =
                                 hset(@, address, [start_time |-> str(e.startTime)])]
                        ELSE @,
                  !.handled = @ \cup {i},
                  !.trace = Append(@, [op |-> "handle", i |-> i]),
                  !.out = broadcast_blockchain_event(@, event_type_of(e.kind),
                                                     <<e.kind, address>>,
                                                     with_gas_info(data, g.gas_info))]

\* One handler of a contract's own event (process_participant_registered,
\* process_participant_withdrawn, process_results_processed,
\* process_betting_group_finalized, process_betting_group_cancelled,
\* process_betting_opportunity_start_time_updated): the membership write of the
\* two participant handlers, then the broadcast. Of the broadcast data the
\* address of the contract, the participant and the transaction are kept.
handle_event(d, address, i) ==
    LET e == events[i]
        g == get_transaction_gas_info(d, transactionHash(e))
        m2 == IF e.kind = "ParticipantRegistered"
              THEN process_participant_registered(d.m, address, e.user)
              ELSE IF e.kind = "ParticipantWithdrawn"
              THEN process_participant_withdrawn(d.m, address, e.user)
              ELSE d.m
        data == IF e.kind \in {"ParticipantRegistered", "ParticipantWithdrawn"}
                THEN [group |-> [address |-> address], participant |-> e.user,
                      tx_hash |-> hex(transactionHash(e)), block_number |-> e.block]
                ELSE IF e.kind = "BettingOpportunityStartTimeUpdated"
                THEN [tournament |-> [address |-> address],
                      bet_id |-> e.id, start_time |-> e.startTime,
                      tx_hash |-> hex(transactionHash(e))]
                ELSE [group |-> [address |-> address],
                      tx_hash |-> hex(transactionHash(e))]
    IN  [g.d EXCEPT !.m = m2,
                  !.handled = @ \cup {i},
                  !.trace = Append(@, [op |-> "handle", i |-> i]),
                  !.out = broadcast_blockchain_event(@, event_type_of(e.kind),
                                                     <<e.kind, address>>,
                                                     with_gas_info(data, g.gas_info))]

\* The "for event in ..._events: await process_...(address, event)" loops.
RECURSIVE handle_events(_, _, _)
handle_events(d, address, logs) ==
    IF logs = <<>>
    THEN d
    ELSE handle_events(handle_event(d, address, Head(logs)), address, Tail(logs))

\* The reconciler is invoked for the group; seen is what had been handled by then.
invoke_sync(d, group_address, faults) ==
    LET r == sync_user_group_mappings(d.m, group_address,
                 <<"participantCount", group_address>> \notin faults, {})
    IN  [d EXCEPT !.m = r.m,
                  !.synced = @ \cup {[group |-> group_address, seen |-> d.handled]}]

\* The event types of a betting group, in the order of their queries.
GroupEventKinds ==
    <<"ParticipantRegistered", "ParticipantWithdrawn", "ResultsProcessed",
      "BettingGroupFinalized", "BettingGroupCancelled">>

\* The queries of a group in one try: the first one that raises ends them.
RECURSIVE queries_one_try(_, _, _, _, _, _)
queries_one_try(d, group_address, kinds, from_block, to_block, faults) ==
    IF kinds = <<>>
    THEN d
    ELSE IF <<Head(kinds), group_address>> \in faults
         THEN queried(d, Head(kinds), group_address, FALSE)
         ELSE queries_one_try(
                  handle_events(queried(d, Head(kinds), group_address, TRUE),
                      group_address,
                      get_logs(Head(kinds), group_address, from_block, to_block)),
                  group_address, Tail(kinds), from_block, to_block, faults)

\* Lines 311-374: each event type in its own try: a get_logs call that raises
\* (the fault <<kind, group>>) skips the handlers of that type only.
RECURSIVE guarded_queries(_, _, _, _, _, _)
guarded_queries(d, group_address, kinds, from_block, to_block, faults) ==
    IF kinds = <<>>
    THEN d
    ELSE LET ok == <<Head(kinds), group_address>> \notin faults
             d0 == queried(d, Head(kinds), group_address, ok)
             d1 == IF ok
                   THEN handle_events(d0, group_address,
                            get_logs(Head(kinds), group_address, from_block, to_block))
                   ELSE d0
         IN  guarded_queries(d1, group_address, Tail(kinds), from_block, to_block, faults)

\* The dispatch of a group with all its event types in one try: the first
\* query that raises ends the handling, the recovery path reconciles.
process_betting_group_contract_events_one_try(d, group_address, from_block, to_block, faults) ==
    IF <<"contract", group_address>> \in faults
    THEN invoke_sync(d, group_address, faults)
    ELSE invoke_sync(queries_one_try(d, group_address, GroupEventKinds,
                                     from_block, to_block, faults),
                     group_address, faults)

\* The dispatch of a group that reconciles on its recovery path only.
process_betting_group_contract_events_recovery_only(d, group_address, from_block, to_block, faults) ==
    IF <<"contract", group_address>> \in faults
    THEN invoke_sync(d, group_address, faults)
    ELSE guarded_queries(d, group_address, GroupEventKinds, from_block, to_block, faults)

\* process_betting_group_contract_events: each event type in its own try, then
\* the reconciler. <<"contract", group>> is get_betting_group_contract raising,
\* which the outer except answers with the reconciler alone;
\* <<"participantCount", group>> is the reconciler's first view call raising.
process_betting_group_contract_events(d, group_address, from_block, to_block, faults) ==
    IF <<"contract", group_address>> \in faults
    THEN invoke_sync(d, group_address, faults)
    ELSE invoke_sync(guarded_queries(d, group_address, GroupEventKinds,
                                     from_block, to_block, faults),
                     group_address, faults)

\* process_tournament_contract_events: the one query of a tournament and its
\* handlers in one try; what raises is logged.
process_tournament_contract_events(d, tournament_address, from_block, to_block, faults) ==
    IF <<"contract", tournament_address>> \in faults
    THEN d
    ELSE IF <<"BettingOpportunityStartTimeUpdated", tournament_address>> \in faults
    THEN queried(d, "BettingOpportunityStartTimeUpdated", tournament_address, FALSE)
    ELSE handle_events(
             queried(d, "BettingOpportunityStartTimeUpdated", tournament_address, TRUE),
             tournament_address,
             get_logs("BettingOpportunityStartTimeUpdated", tournament_address,
                      from_block, to_block))

\* The "for tournament_address in known_tournaments" loop.
RECURSIVE for_known_tournaments(_, _, _, _, _)
for_known_tournaments(d, tournaments, from_block, to_block, faults) ==
    IF tournaments = {}
    THEN d
    ELSE LET tournament_address == CHOOSE t \in tournaments : TRUE
         IN  for_known_tournaments(
                 process_tournament_contract_events(d, tournament_address,
                                                    from_block, to_block, faults),
                 tournaments \ {tournament_address}, from_block, to_block, faults)

\* The "for group_address in known_betting_groups" loop.
RECURSIVE for_known_betting_groups(_, _, _, _, _)
for_known_betting_groups(d, groups, from_block, to_block, faults) ==
    IF groups = {}
    THEN d
    ELSE LET group_address == CHOOSE g \in groups : TRUE
         IN  for_known_betting_groups(
                 process_betting_group_contract_events(d, group_address,
                                                       from_block, to_block, faults),
                 groups \ {group_address}, from_block, to_block, faults)

\* A handler that stores the record and emits nothing.
process_tournament_created_silent(d, i) ==
    LET e == events[i]
        tournament_address == e.tournament
        tournament_data ==
            [description |-> e.description,
             start_time |-> str(e.startTime),
             end_time |-> str(e.endTime),
             betting_opportunities_count |-> str(Len(e.bettingOpportunities)),
             event_block |-> str(e.block),
             event_tx |-> hex(transactionHash(e))]
        c1 == [d.c EXCEPT !.known_tournaments = @ \cup {tournament_address}]
    IN  [d EXCEPT !.c = save_tournament(c1, tournament_address, tournament_data),
                  !.handled = @ \cup {i},
                  !.trace = Append(@, [op |-> "handle", i |-> i])]

\* A handler that stops after the registry write when there is no gas information.
process_tournament_created_enriched_only(d, i) ==
    LET e == events[i]
        tournament_address == e.tournament
        tournament_data ==
            [description |-> e.description,
             start_time |-> str(e.startTime),
             end_time |-> str(e.endTime),
             betting_opportunities_count |-> str(Len(e.bettingOpportunities)),
             event_block |-> str(e.block),
             event_tx |-> hex(transactionHash(e))]
        g == get_transaction_gas_info(d, transactionHash(e))
        c1 == [d.c EXCEPT !.known_tournaments = @ \cup {tournament_address}]
        broadcast_data == [address |-> tournament_address,
                           description |-> e.description,
                           tx_hash |-> hex(transactionHash(e))]
    IN  IF g.gas_info = <<>>
        THEN [d EXCEPT !.c = c1,
                       !.handled = @ \cup {i},
                       !.trace = Append(@, [op |-> "handle", i |-> i])]
        ELSE [g.d EXCEPT !.c = save_tournament(c1, tournament_address, tournament_data),
                         !.handled = @ \cup {i},
                         !.trace = Append(@, [op |-> "handle", i |-> i]),
                         !.out = broadcast_blockchain_event(@, "tournament",
                                     <<"New tournament created", e.description>>,
                                     with_gas_info(broadcast_data, g.gas_info))]

\* process_tournament_created(event): the registry, the record, the broadcast.
process_tournament_created(d, i) ==
    LET e == events[i]
        g == get_transaction_gas_info(d, transactionHash(e))
        tournament_address == e.tournament
        tournament_data ==
            [description |-> e.description,
             start_time |-> str(e.startTime),
             end_time |-> str(e.endTime),
             betting_opportunities_count |-> str(Len(e.bettingOpportunities)),
             event_block |-> str(e.block),
             event_tx |-> hex(transactionHash(e))]
        c1 == [d.c EXCEPT !.known_tournaments = @ \cup {tournament_address}]
        broadcast_data == [address |-> tournament_address,
                           description |-> e.description,
                           tx_hash |-> hex(transactionHash(e))]
    IN  [g.d EXCEPT !.c = save_tournament(c1, tournament_address, tournament_data),
                  !.handled = @ \cup {i},
                  !.trace = Append(@, [op |-> "handle", i |-> i]),
                  !.out = broadcast_blockchain_event(@, "tournament",
                              <<"New tournament created", e.description>>,
                              with_gas_info(broadcast_data, g.gas_info))]

\* ','.join(str(p) for p in prize_distribution)
RECURSIVE join(_)
join(numbers) ==
    IF numbers = <<>> THEN <<>>
    ELSE IF Len(numbers) = 1 THEN str(Head(numbers))
    ELSE str(Head(numbers)) \o <<",">> \o join(Tail(numbers))

\* process_betting_group_created(event): the registry, the record, the broadcast.
process_betting_group_created(d, i) ==
    LET e == events[i]
        g == get_transaction_gas_info(d, transactionHash(e))
        group_address == e.group
        group_data ==
            [description |-> e.description,
             tournament_address |-> e.tournament,
             registration_end_time |-> str(e.registrationEndTime),
             prize_distribution |-> join(e.prizeDistribution),
             general_closing_window |-> str(e.generalClosingWindowInSeconds),
             event_block |-> str(e.block),
             event_tx |-> hex(transactionHash(e))]
        c1 == [d.c EXCEPT !.known_betting_groups = @ \cup {group_address}]
        broadcast_data == [address |-> group_address,
                           tournament_address |-> e.tournament,
                           description |-> e.description,
                           tx_hash |-> hex(transactionHash(e))]
    IN  [g.d EXCEPT !.c = save_group(c1, group_address, group_data),
                  !.handled = @ \cup {i},
                  !.trace = Append(@, [op |-> "handle", i |-> i]),
                  !.out = broadcast_blockchain_event(@, "group",
                              <<"New betting group created", e.description>>,
                              with_gas_info(broadcast_data, g.gas_info))]

\* The "for event in tournament_events" loop.
RECURSIVE for_tournament_events(_, _)
for_tournament_events(d, logs) ==
    IF logs = <<>>
    THEN d
    ELSE for_tournament_events(process_tournament_created(d, Head(logs)), Tail(logs))

\* The "for event in group_events" loop.
RECURSIVE for_group_events(_, _)
for_group_events(d, logs) ==
    IF logs = <<>>
    THEN d
    ELSE for_group_events(process_betting_group_created(d, Head(logs)), Tail(logs))

\* A dispatch that queries the contracts of the registries as they were when
\* it began.
process_past_events_registry_first(d, to_block, from_block, faults) ==
    IF <<"TournamentCreated", FACTORY_CONTRACT_ADDRESS>> \in faults
    THEN [raised |-> TRUE, d |-> d]
    ELSE LET d1 == for_tournament_events(d,
                       get_logs("TournamentCreated", FACTORY_CONTRACT_ADDRESS,
                                from_block, to_block))
         IN  IF <<"BettingGroupCreated", FACTORY_CONTRACT_ADDRESS>> \in faults
             THEN [raised |-> TRUE, d |-> d1]
             ELSE LET d2 == for_group_events(d1,
                                get_logs("BettingGroupCreated", FACTORY_CONTRACT_ADDRESS,
                                         from_block, to_block))
                      d3 == for_known_tournaments(d2, d.c.known_tournaments,
                                                  from_block, to_block, faults)
                  IN  [raised |-> FALSE,
                       d |-> for_known_betting_groups(d3, d.c.known_betting_groups,
                                                      from_block, to_block, faults)]

\* process_past_events(to_block, from_block). The factory's two get_logs calls
\* are not guarded: the faults <<"TournamentCreated", FACTORY_CONTRACT_ADDRESS>>
\* and <<"BettingGroupCreated", FACTORY_CONTRACT_ADDRESS>> raise out of it.
process_past_events(d, to_block, from_block, faults) ==
    IF <<"TournamentCreated", FACTORY_CONTRACT_ADDRESS>> \in faults
    THEN [raised |-> TRUE, d |-> d]
    ELSE LET d1 == for_tournament_events(d,
                       get_logs("TournamentCreated", FACTORY_CONTRACT_ADDRESS,
                                from_block, to_block))
         IN  IF <<"BettingGroupCreated", FACTORY_CONTRACT_ADDRESS>> \in faults
             THEN [raised |-> TRUE, d |-> d1]
             ELSE LET d2 == for_group_events(d1,
                                get_logs("BettingGroupCreated", FACTORY_CONTRACT_ADDRESS,
                                         from_block, to_block))
                      d3 == for_known_tournaments(d2, d2.c.known_tournaments,
                                                  from_block, to_block, faults)
                  IN  [raised |-> FALSE,
                       d |-> for_known_betting_groups(d3, d3.c.known_betting_groups,
                                                      from_block, to_block, faults)]

\* The envelope of type "block" of a range.
block_event(out, from_block, to_block) ==
    broadcast_blockchain_event(out, "block",
        <<"New blocks processed", from_block, to_block>>,
        [from_block |-> from_block, to_block |-> to_block])

\* A tick that announces the range before it is known to be processed.
process_new_events_announces_first(d, from_block, to_block, faults) ==
    LET r == process_past_events(d, to_block, from_block, faults)
    IN  [raised |-> r.raised,
         d |-> [r.d EXCEPT !.out = block_event(@, from_block, to_block)]]

\* process_new_events(from_block, to_block): the dispatch, then the broadcast
\* of type "block" with the bounds of the range; an exception of the dispatch
\* leaves the function before the broadcast.
process_new_events(d, from_block, to_block, faults) ==
    LET r == process_past_events(d, to_block, from_block, faults)
    IN  IF r.raised
        THEN [raised |-> TRUE, d |-> r.d]
        ELSE [raised |-> FALSE,
              d |-> [r.d EXCEPT !.out = block_event(@, from_block, to_block)]]

\* A sweep that ends at the first group whose pass reports a failure.
RECURSIVE verify_all_user_group_mappings_until_failure(_, _, _)
verify_all_user_group_mappings_until_failure(v, groups, faults) ==
    IF groups = {}
    THEN v
    ELSE LET group_address == CHOOSE g \in groups : TRUE
             result == sync_user_group_mappings(v.m, group_address,
                           <<"participantCount", group_address>> \notin faults, {})
             v1 == [m |-> result.m,
                    success_count |-> IF result.ok THEN v.success_count + 1
                                      ELSE v.success_count,
                    calls |-> Append(v.calls, group_address)]
         IN  IF result.ok
             THEN verify_all_user_group_mappings_until_failure(
                      v1, groups \ {group_address}, faults)
             ELSE v1

\* verify_all_user_group_mappings: one pass per known group; success_count is
\* the value returned, calls the groups the reconciler was invoked for, in order.
RECURSIVE verify_all_user_group_mappings(_, _, _)
verify_all_user_group_mappings(v, groups, faults) ==
    IF groups = {}
    THEN v
    ELSE LET group_address == CHOOSE g \in groups : TRUE
             result == sync_user_group_mappings(v.m, group_address,
                           <<"participantCount", group_address>> \notin faults, {})
         IN  verify_all_user_group_mappings(
                 [m |-> result.m,
                  success_count |-> IF result.ok THEN v.success_count + 1
                                    ELSE v.success_count,
                  calls |-> Append(v.calls, group_address)],
                 groups \ {group_address}, faults)

(***************************************************************************)
(* blockchain.py: watch_events                                             *)
(***************************************************************************)
\* The RPC failures one dispatch can meet: none, or one get_logs or
\* participantCount call that raises.
\* The group contract whose calls can raise; the calls of the other one return.
FaultyGroups == { <<"G", "7">> }

Faults ==
    {<<"BettingGroupCreated", FACTORY_CONTRACT_ADDRESS>>}
    \cup { <<k, g>> : k \in {"ParticipantRegistered", "ParticipantWithdrawn",
                              "participantCount", "contract"}, g \in FaultyGroups }

FaultSets == {{}} \cup { {f} : f \in Faults }

\* What raised: "none", a get_logs call of the factory ("factory") or of one
\* event type of a group ("query"), get_betting_group_contract ("contract"),
\* the reconciler's participantCount call ("participantCount").
fault_kind(faults) ==
    IF faults = {} THEN "none"
    ELSE LET f == CHOOSE x \in faults : TRUE
         IN  IF f[2] = FACTORY_CONTRACT_ADDRESS THEN "factory"
             ELSE IF f[1] \in {"ParticipantRegistered", "ParticipantWithdrawn"}
             THEN "query"
             ELSE f[1]

Max(a, b) == IF a >= b THEN a ELSE b

\* A start block that is not clamped at genesis.
start_block_of_unclamped(checkpoint, starting_block, current) ==
    IF checkpoint # None
    THEN checkpoint + 1
    ELSE IF starting_block < 0
         THEN current + starting_block
         ELSE starting_block

\* Lines 194-215: the block the bootstrap starts from.
start_block_of(checkpoint, starting_block, current) ==
    IF checkpoint # None
    THEN checkpoint + 1
    ELSE IF starting_block < 0
         THEN Max(0, current + starting_block)
         ELSE starting_block

\* A tick that writes the checkpoint whether or not the dispatch raised.
after_dispatch_saves_on_error(current, checkpoint, new_block, raised) ==
    [current_block |-> new_block, last_processed_block |-> new_block]

\* A tick that moves current_block and never stores the checkpoint.
after_dispatch_without_save(current, checkpoint, new_block, raised) ==
    IF raised
    THEN [current_block |-> current, last_processed_block |-> checkpoint]
    ELSE [current_block |-> new_block, last_processed_block |-> checkpoint]

\* A tick that moves current_block before the dispatch is known to be done.
after_dispatch_moves_on_error(current, checkpoint, new_block, raised) ==
    IF raised
    THEN [current_block |-> new_block, last_processed_block |-> checkpoint]
    ELSE [current_block |-> new_block, last_processed_block |-> new_block]

\* Lines 231-241: what a tick leaves in current_block and in the stored
\* checkpoint once process_new_events returned or raised.
after_dispatch(current, checkpoint, new_block, raised) ==
    IF raised
    THEN [current_block |-> current, last_processed_block |-> checkpoint]
    ELSE [current_block |-> new_block, last_processed_block |-> new_block]

catalog ==
    [known_betting_groups |-> known_betting_groups,
     known_tournaments |-> known_tournaments,
     tournament_hash |-> tournament_hash, group_hash |-> group_hash,
     tournament_index |-> tournament_index, group_index |-> group_index,
     tournament_groups |-> tournament_groups,
     tournament_word |-> tournament_word, group_word |-> group_word]

\* The registries, records and indexes are left as the dispatch wrote them.
CatalogBecomes(c) ==
    /\ known_betting_groups' = c.known_betting_groups
    /\ known_tournaments' = c.known_tournaments
    /\ tournament_hash' = c.tournament_hash
    /\ group_hash' = c.group_hash
    /\ tournament_index' = c.tournament_index
    /\ group_index' = c.group_index
    /\ tournament_groups' = c.tournament_groups
    /\ tournament_word' = c.tournament_word
    /\ group_word' = c.group_word

\* The environment of the gas lookups of a dispatch in which no receipt can be read.
no_gas == [ok |-> FALSE, calls |-> <<>>, cache |-> eth_price_cache, now |-> now]

dispatch_state == [c |-> catalog, m |-> store, handled |-> handled,
                   synced |-> {}, out |-> <<>>, trace |-> <<>>, gas |-> no_gas]

no_sweep_result == [m |-> store, success_count |-> 0, calls |-> <<>>]

\* Lines 189-227: Bootstrapping and CatchingUp. An exception of the dispatch
\* leaves watch_events, and the task ends.
Boot(faults) ==
    /\ pc = "boot"
    /\ LET current == height
           start_block == start_block_of(last_processed_block, STARTING_BLOCK, current)
       IN  \E r \in { IF start_block <= current
                       THEN process_past_events(dispatch_state, current, start_block, faults)
                       ELSE [raised |-> FALSE, d |-> dispatch_state] } :
           \E swept \in { verify_all_user_group_mappings(
                               [no_sweep_result EXCEPT !.m = r.d.m],
                               r.d.c.known_betting_groups, faults).m } :
           /\ first_start' = IF first_start = None THEN start_block ELSE first_start
           /\ CatalogBecomes(r.d.c)
           /\ handled' = r.d.handled
           /\ current_block' = current
           /\ IF r.raised
              THEN /\ pc' = "dead"
                   /\ user_groups' = r.d.m.user_groups
                   /\ group_users' = r.d.m.group_users
                   /\ UNCHANGED last_processed_block
                   /\ last_tick' = [no_tick EXCEPT !.kind = "boot_failed",
                                        !.from = start_block, !.to = current,
                                        !.out = r.d.out, !.trace = r.d.trace,
                                        !.fault = fault_kind(faults), !.synced = r.d.synced]
              ELSE /\ pc' = "live"
                   /\ user_groups' = swept.user_groups
                   /\ group_users' = swept.group_users
                   /\ last_processed_block' = current
                   /\ last_tick' = [no_tick EXCEPT
                                        !.kind = IF faults = {} THEN "boot"
                                                 ELSE "boot_degraded",
                                        !.from = start_block, !.to = current,
                                        !.out = r.d.out, !.trace = r.d.trace,
                                        !.fault = fault_kind(faults), !.synced = r.d.synced]
    /\ UNCHANGED <<chain_vars, STARTING_BLOCK, last_sync, price_vars, ws_vars, hist_vars>>

\* Lines 230-244: one pass of the Live loop.
Tick(faults) ==
    /\ pc = "live"
    /\ LET new_block == height
       IN  IF new_block > current_block
           THEN \E r \in { process_new_events(dispatch_state, current_block + 1,
                                                 new_block, faults) } :
                LET a == after_dispatch(current_block, last_processed_block,
                                        new_block, r.raised)
                IN  /\ CatalogBecomes(r.d.c)
                    /\ handled' = r.d.handled
                    /\ user_groups' = r.d.m.user_groups
                    /\ group_users' = r.d.m.group_users
                    /\ current_block' = a.current_block
                    /\ last_processed_block' = a.last_processed_block
                    /\ last_tick' = [kind |-> IF r.raised THEN "error"
                                              ELSE IF faults = {} THEN "ok"
                                              ELSE "degraded",
                                     from |-> current_block + 1, to |-> new_block,
                                     retry |-> last_tick.kind = "error",
                                     out |-> r.d.out, fault |-> fault_kind(faults),
                                     synced |-> r.d.synced, trace |-> r.d.trace]
           ELSE UNCHANGED <<store_vars, catalog_vars, current_block, handled, last_tick>>
    /\ pc' = pc
    /\ UNCHANGED <<chain_vars, STARTING_BLOCK, first_start, last_sync, price_vars, ws_vars, hist_vars>>

\* The service is stopped and started again: the store stays, the task's locals go.
Restart ==
    /\ pc \in {"live", "dead"}
    /\ pc' = "boot"
    /\ current_block' = 0
    /\ last_tick' = no_tick
    /\ UNCHANGED <<chain_vars, store_vars, STARTING_BLOCK, handled, first_start,
                   last_sync, price_vars, ws_vars, catalog_vars, hist_vars>>

Next ==
    \/ \E g \in Groups : MineCreateGroup(g, <<"T", "5">>, <<"c">>)
    \/ \E u \in Users, g \in Groups : MineRegister(u, g)
    \/ \E u \in Users, g \in Groups : MineWithdraw(u, g)
    \/ \E faults \in FaultSets : Boot(faults)
    \/ \E faults \in FaultSets : Tick(faults)
    \/ Restart

Spec == Init /\ [][Next]_vars

\* The store holds a checkpoint written by an earlier run, and the node at
\* RPC_URL has since been reset (a development chain) or is a shorter chain.
InitStale ==
    /\ InitChain
    /\ last_processed_block \in 0..MaxBlock
    /\ known_betting_groups = {}
    /\ user_groups = {}
    /\ group_users = {}
    /\ InitPoller
    /\ InitPrice
    /\ InitWs
    /\ InitCatalog
    /\ InitHist
    /\ last_sync = no_sync

SpecStale == InitStale /\ [][Next]_vars

\* C1: in the Live loop the stored checkpoint never decreases, and a tick whose
\* dispatch raised leaves it where it was, below the range that failed.
C1_LiveCheckpointMonotone ==
    [][ (pc = "live" /\ pc' = "live")
        => /\ last_processed_block' >= last_processed_block
           /\ (last_tick'.kind = "error"
               => /\ last_processed_block' = last_processed_block
                  /\ last_processed_block' < last_tick'.from) ]_vars

\* C1 witness: a tick raised after the checkpoint had advanced in the Live loop.
C1_Witness ==
    /\ pc = "live"
    /\ last_tick.kind = "error"
    /\ last_processed_block >= 1
    /\ last_tick.to > last_processed_block

\* C2: a dispatch that raises in the Live loop is swallowed (the loop goes on),
\* changes neither the stored checkpoint nor current_block, and the next tick
\* that dispatches starts at the same block and reaches at least as far.
C2_FailedRangeDispatchedAgain ==
    [][ pc = "live"
        => /\ (last_tick'.kind = "error"
               => /\ pc' = "live"
                  /\ last_processed_block' = last_processed_block
                  /\ current_block' = current_block)
           /\ (last_tick.kind = "error" /\ last_tick' # last_tick /\ pc' = "live"
               => /\ last_tick'.retry
                  /\ last_tick'.from = last_tick.from
                  /\ last_tick'.from = current_block + 1
                  /\ last_tick'.to >= last_tick.to) ]_vars

\* C2 witness: the range of a tick that raised was dispatched again, with more
\* blocks, and that dispatch returned.
C2_Witness ==
    /\ pc = "live"
    /\ last_tick.kind = "ok"
    /\ last_tick.retry
    /\ last_tick.to > last_tick.from
    /\ last_processed_block = last_tick.to

\* C3 (as claimed): over restarts and ticks the stored checkpoint never decreases.
C3_CheckpointNeverDecreases ==
    [][ last_processed_block # None
        => last_processed_block' >= last_processed_block ]_vars

\* C4 (as claimed): every event of the factory or of a registered group in a
\* block from the first start block up to the stored checkpoint was passed to
\* its handler.
C4_CheckpointCoversHandledEvents ==
    (last_processed_block # None /\ first_start # None) =>
        \A i \in DOMAIN events :
            ( /\ events[i].block >= first_start
              /\ events[i].block <= last_processed_block
              /\ \/ events[i].kind = "BettingGroupCreated"
                 \/ events[i].group \in known_betting_groups )
            => i \in handled

\* C8 (as claimed): when a dispatch with no RPC failure has returned and the chain
\* has not moved since, the cached members of every registered group are the
\* lower-cased accounts registered on chain.
C8_DispatchLeavesChainMembers ==
    (pc = "live" /\ last_tick.kind \in {"ok", "boot"} /\ current_block = height) =>
        \A g \in known_betting_groups :
            get_group_users(store, g) = LowerSet(isRegistered[g])

(***************************************************************************)
(* SpecCatalog: the dispatcher over the events of the factory, of the      *)
(* tournaments and of the groups, with the contract records it stores and  *)
(* the envelopes it emits.                                                 *)
(***************************************************************************)
\* What the tournaments of this study are created with.
TournamentArgs ==
    { [description |-> <<"W", " ", " ", "c">>, bettingOpportunities |-> <<"o1", "o2">>],
      [description |-> <<" ">>, bettingOpportunities |-> <<>>] }

\* The RPC failures a dispatch of this study can meet: none, one of the two
\* get_logs calls of the factory, the get_logs call of a tournament, one get_logs
\* call of a group.
CatalogFaultSets ==
    { {},
      {<<"TournamentCreated", FACTORY_CONTRACT_ADDRESS>>},
      {<<"BettingGroupCreated", FACTORY_CONTRACT_ADDRESS>>},
      {<<"BettingOpportunityStartTimeUpdated", <<"T", "5">>>>},
      {<<"ResultsProcessed", <<"G", "7">>>>} }

\* The process is stopped when process_new_events has returned and before
\* line 236: the cache holds what the dispatch wrote, the checkpoint is the old one.
TickKilled ==
    /\ pc = "live"
    /\ height > current_block
    /\ \E r \in { process_new_events(dispatch_state, current_block + 1, height, {}) } :
          /\ CatalogBecomes(r.d.c)
          /\ handled' = r.d.handled
          /\ user_groups' = r.d.m.user_groups
          /\ group_users' = r.d.m.group_users
          /\ last_tick' = [kind |-> "killed", from |-> current_block + 1, to |-> height,
                           retry |-> last_tick.kind = "error", out |-> r.d.out,
                           fault |-> "none", synced |-> r.d.synced,
                           trace |-> r.d.trace]
    /\ killed' = [from |-> current_block + 1, to |-> height]
    /\ pc' = "dead"
    /\ UNCHANGED <<chain_vars, last_processed_block, STARTING_BLOCK, current_block,
                   first_start, last_sync, price_vars, ws_vars,
                   last_query, last_admin, co>>

NextCatalog ==
    \/ \E t \in Tournaments, a \in TournamentArgs :
          MineCreateTournament(t, a.description, a.bettingOpportunities)
    \/ \E t \in Tournaments : MineStartTimeUpdated(t)
    \/ \E g \in Groups :
          height < MaxCatalogBlock /\ MineCreateGroup(g, <<"T", "5">>, <<"W", "c">>)
    \/ \E kind \in {"ResultsProcessed", "BettingGroupFinalized", "BettingGroupCancelled"} :
          MineGroupEvent(kind, <<"G", "7">>)
    \/ \E g \in Groups : height < MaxCatalogBlock /\ MineRegister(<<"b", "2">>, g)
    \/ \E g \in Groups : MineWithdraw(<<"b", "2">>, g)
    \/ \E faults \in CatalogFaultSets : Boot(faults)
    \/ \E faults \in CatalogFaultSets : Tick(faults)
    \/ TickKilled
    \/ Restart

InitCatalogOnly == Init /\ STARTING_BLOCK = 0

SpecCatalog == InitCatalogOnly /\ [][NextCatalog]_vars

(***************************************************************************)
(* SpecPrice: the ETH price cache.  The event handlers reach it through    *)
(* get_transaction_gas_info, which swallows every exception, so the cache  *)
(* is the only state a call touches; the poller runs the calls one at a    *)
(* time, so a call is one step.                                            *)
(***************************************************************************)
\* A handler asks for the price; the sleeps of the call pass on the clock.
GetPrice(responses) ==
    /\ now <= MaxNow
    /\ LET r == get_eth_price_usd(eth_price_cache, now, responses)
       IN  /\ eth_price_cache' = r.cache
           /\ now' = now + r.slept
           /\ last_price' = [called |-> TRUE, before |-> eth_price_cache,
                             at |-> now,
                             all_failed |-> every_attempt_fails(responses),
                             first_ok |-> first_valid(responses),
                             result |-> r.result, requests |-> r.requests,
                             slept |-> r.slept]
    /\ UNCHANGED <<chain_vars, store_vars, poller_vars, last_sync, ws_vars, catalog_vars, hist_vars>>

\* Time passes between two calls.
Advance(dt) ==
    /\ now + dt <= MaxNow
    /\ now' = now + dt
    /\ UNCHANGED <<chain_vars, store_vars, poller_vars, last_sync,
                   eth_price_cache, last_price, ws_vars, catalog_vars, hist_vars>>

NextPrice ==
    \/ \E responses \in ResponseSeqs : GetPrice(responses)
    \/ \E dt \in TimeSteps : Advance(dt)

InitPriceOnly == Init /\ STARTING_BLOCK = 0

SpecPrice == InitPriceOnly /\ [][NextPrice]_vars

\* C9: a call made while a price is cached and younger than 600 seconds returns
\* the cached price, issues no request and does not sleep.
C9_CacheHitNoNetwork ==
    ( /\ last_price.called
      /\ last_price.before.price # None
      /\ last_price.at - last_price.before.timestamp < 600 )
    => /\ last_price.result = last_price.before.price
       /\ last_price.requests = 0
       /\ last_price.slept = 0

\* C9 witness: a call was served from a cache entry 599 seconds old.
C9_Witness ==
    /\ last_price.called
    /\ last_price.before.price # None
    /\ last_price.at - last_price.before.timestamp = 599
    /\ last_price.result = last_price.before.price
    /\ last_price.requests = 0

\* C10: a call made with an expired cached price, all of whose attempts fail,
\* returns that price and leaves the cache entry as it was.
C10_StaleReadOnFailure ==
    ( /\ last_price.called
      /\ last_price.before.price # None
      /\ last_price.at - last_price.before.timestamp >= 600
      /\ last_price.all_failed )
    => /\ last_price.result = last_price.before.price
       /\ eth_price_cache = last_price.before

\* C10 witness: a call found a price at least 600 seconds old, made its three
\* attempts with the two sleeps between them, and returned the old price.
C10_Witness ==
    /\ last_price.called
    /\ last_price.before.price # None
    /\ last_price.at - last_price.before.timestamp >= 600
    /\ last_price.all_failed
    /\ last_price.requests = 3
    /\ last_price.slept = 15
    /\ last_price.result = last_price.before.price

\* C11: a call made with no price ever cached, all of whose attempts fail,
\* returns None and leaves the cache empty.
C11_UnavailableWhenNeverFetched ==
    ( /\ last_price.called
      /\ last_price.before.price = None
      /\ last_price.all_failed )
    => /\ last_price.result = None
       /\ eth_price_cache.price = None
       /\ eth_price_cache = last_price.before

\* C11 witness: a call with an empty cache made its three attempts, all failed,
\* and it returned None.
C11_Witness ==
    /\ last_price.called
    /\ last_price.before.price = None
    /\ last_price.all_failed
    /\ last_price.requests = 3
    /\ last_price.result = None
    /\ eth_price_cache.price = None

RECURSIVE list_remove(_, _)
list_remove(list, x) ==
    IF list = <<>> THEN <<>>
    ELSE IF Head(list) = x THEN Tail(list)
    ELSE <<Head(list)>> \o list_remove(Tail(list), x)

disconnect(list, websocket) ==
    IF websocket \in Range(list) THEN list_remove(list, websocket) ELSE list

\* for connection in disconnected: self.disconnect(connection)
RECURSIVE disconnect_each(_, _)
disconnect_each(list, gone) ==
    IF gone = <<>> THEN list
    ELSE disconnect_each(disconnect(list, Head(gone)), Tail(gone))

\* Line 18.
at_capacity(list) == Len(list) >= MAX_CONNECTIONS

raised(w) == [sock EXCEPT ![w].pc = "done", ![w].ret = "raised"]

\* connect, up to its first await (lines 18-20 or 18, 31).
ConnectCall(w) ==
    /\ sock[w].pc = "new"
    /\ \A v \in Sockets : v < w => sock[v].pc # "new"
    /\ sock' = IF at_capacity(active_connections)
               THEN [sock EXCEPT ![w].pc = "rej_accept", ![w].at_cap = TRUE]
               ELSE [sock EXCEPT ![w].pc = "accept"]
    /\ UNCHANGED <<active_connections, connection_count, dead, bc, cl>>
    /\ UNCHANGED <<chain_vars, store_vars, poller_vars, last_sync, price_vars,
                   catalog_vars, hist_vars>>

\* Lines 31-35: accept returns and the websocket joins the list, or accept
\* raises and connect ends with the exception.
ConnectAccept(w) ==
    /\ sock[w].pc = "accept"
    /\ IF w \in dead
       THEN /\ sock' = raised(w)
            /\ UNCHANGED <<active_connections, connection_count>>
       ELSE /\ sock' = [sock EXCEPT ![w].pc = "done", ![w].ret = "websocket",
                                    ![w].wire = Append(@, "accept")]
            /\ active_connections' = Append(active_connections, w)
            /\ connection_count' = connection_count + 1
    /\ UNCHANGED <<dead, bc, cl>>
    /\ UNCHANGED <<chain_vars, store_vars, poller_vars, last_sync, price_vars,
                   catalog_vars, hist_vars>>

\* A rejection that closes the connection without the notice.
reject_step_silent(s) ==
    IF s.pc = "rej_accept"
    THEN [s EXCEPT !.pc = "rej_close", !.wire = Append(@, "accept")]
    ELSE [s EXCEPT !.pc = "done", !.ret = "None", !.wire = Append(@, "close_1013")]

\* Lines 20-28, the await that returns next: accept, then send_json of the
\* notice of type "system", then close(code=1013) and return None.
reject_step(s) ==
    IF s.pc = "rej_accept"
    THEN [s EXCEPT !.pc = "rej_send", !.wire = Append(@, "accept")]
    ELSE IF s.pc = "rej_send"
    THEN [s EXCEPT !.pc = "rej_close", !.wire = Append(@, "system")]
    ELSE [s EXCEPT !.pc = "done", !.ret = "None", !.wire = Append(@, "close_1013")]

\* Lines 20-28, one await at a time; a transport call on a websocket whose peer
\* is gone raises, and connect ends with the exception.
RejectStep(w) ==
    /\ sock[w].pc \in {"rej_accept", "rej_send", "rej_close"}
    /\ sock' = IF w \in dead THEN raised(w)
               ELSE [sock EXCEPT ![w] = reject_step(@)]
    /\ UNCHANGED <<active_connections, connection_count, dead, bc, cl>>
    /\ UNCHANGED <<chain_vars, store_vars, poller_vars, last_sync, price_vars,
                   catalog_vars, hist_vars>>

\* The connection handler calls manager.disconnect(websocket) (lines 37-42).
Disconnect(w) ==
    /\ sock[w].pc = "done"
    /\ active_connections' = disconnect(active_connections, w)
    /\ UNCHANGED <<connection_count, sock, dead, bc, cl>>
    /\ UNCHANGED <<chain_vars, store_vars, poller_vars, last_sync, price_vars,
                   catalog_vars, hist_vars>>

\* The peer of a websocket goes away: from now on a transport call raises.
PeerGone(w) ==
    /\ w \notin dead
    /\ Cardinality(dead) < MaxGone
    /\ sock[w].pc # "new"
    /\ dead' = dead \cup {w}
    /\ UNCHANGED <<active_connections, connection_count, sock, bc, cl>>
    /\ UNCHANGED <<chain_vars, store_vars, poller_vars, last_sync, price_vars,
                   catalog_vars, hist_vars>>

\* One iteration of `for connection in self.active_connections` around an
\* awaited send_json: the list iterator reads the live list at its index, so
\* what other coroutines did to the list during the last await counts.
loop_step(call) ==
    LET connection == active_connections[call.i]
    IN  IF connection \in dead
        THEN [call EXCEPT !.i = @ + 1,
                          !.attempted = @ \cup {connection},
                          !.disconnected = Append(@, connection)]
        ELSE [call EXCEPT !.i = @ + 1,
                          !.attempted = @ \cup {connection},
                          !.delivered = @ \cup {connection}]

\* The same loop in clean_stale_connections (lines 71-82).
sweep_step(call) ==
    LET connection == active_connections[call.i]
    IN  IF connection \in dead
        THEN [call EXCEPT !.i = @ + 1, !.disconnected = Append(@, connection)]
        ELSE [call EXCEPT !.i = @ + 1]

start_call ==
    [pc |-> "send", i |-> 1, disconnected |-> <<>>,
     start |-> Range(active_connections), attempted |-> {}, delivered |-> {}]

\* broadcast, lines 45-50.
BroadcastCall ==
    /\ bc.pc \in {"idle", "done"}
    /\ bc' = IF active_connections = <<>> THEN no_call ELSE start_call
    /\ UNCHANGED <<active_connections, connection_count, sock, dead, cl>>
    /\ UNCHANGED <<chain_vars, store_vars, poller_vars, last_sync, price_vars,
                   catalog_vars, hist_vars>>

\* broadcast, lines 52-64: the next send, or the end of the loop and the
\* removal of the connections whose send raised.
BroadcastStep ==
    /\ bc.pc = "send"
    /\ IF bc.i <= Len(active_connections)
       THEN /\ bc' = loop_step(bc)
            /\ UNCHANGED active_connections
       ELSE /\ bc' = [bc EXCEPT !.pc = "done"]
            /\ active_connections' = disconnect_each(active_connections, bc.disconnected)
    /\ UNCHANGED <<connection_count, sock, dead, cl>>
    /\ UNCHANGED <<chain_vars, store_vars, poller_vars, last_sync, price_vars,
                   catalog_vars, hist_vars>>

\* clean_stale_connections, line 68.
CleanCall ==
    /\ cl.pc \in {"idle", "done"}
    /\ cl' = [pc |-> "send", i |-> 1, disconnected |-> <<>>]
    /\ UNCHANGED <<active_connections, connection_count, sock, dead, bc>>
    /\ UNCHANGED <<chain_vars, store_vars, poller_vars, last_sync, price_vars,
                   catalog_vars, hist_vars>>

\* clean_stale_connections, lines 71-91.
CleanStep ==
    /\ cl.pc = "send"
    /\ IF cl.i <= Len(active_connections)
       THEN /\ cl' = sweep_step(cl)
            /\ UNCHANGED active_connections
       ELSE /\ cl' = [cl EXCEPT !.pc = "done"]
            /\ active_connections' = disconnect_each(active_connections, cl.disconnected)
    /\ UNCHANGED <<connection_count, sock, dead, bc>>
    /\ UNCHANGED <<chain_vars, store_vars, poller_vars, last_sync, price_vars,
                   catalog_vars, hist_vars>>

NextWs ==
    \/ \E w \in Sockets : ConnectCall(w)
    \/ \E w \in Sockets : ConnectAccept(w)
    \/ \E w \in Sockets : RejectStep(w)
    \/ \E w \in Sockets : Disconnect(w)
    \/ \E w \in Sockets : PeerGone(w)
    \/ BroadcastCall
    \/ BroadcastStep
    \/ CleanCall
    \/ CleanStep

InitWsOnly == Init /\ STARTING_BLOCK = 0

SpecWs == InitWsOnly /\ [][NextWs]_vars

\* C13 (as claimed): when a broadcast call has returned, every subscriber that
\* was in the set from the start of the call to its end had a send attempted,
\* every attempted send that did not raise was a delivery, and the connections
\* whose send raised are out of the set.
C13_BroadcastReachesEverySubscriber ==
    bc.pc = "done" =>
        /\ \A w \in bc.start \cap Range(active_connections) : w \in bc.attempted
        /\ bc.delivered = bc.attempted \ Range(bc.disconnected)
        /\ Range(bc.disconnected) \cap Range(active_connections) = {}

\* C14 (as claimed): the list never holds more than MAX_CONNECTIONS connections.
C14_SubscriberCap ==
    Len(active_connections) <= MAX_CONNECTIONS

RejectionWire == <<"accept", "system", "close_1013">>

C16_StartHeight ==
    [][ (pc = "boot" /\ pc' # "boot")
        => last_tick'.from =
             CASE last_processed_block # None -> last_processed_block + 1
               [] last_processed_block = None /\ STARTING_BLOCK < 0
                    -> IF height + STARTING_BLOCK > 0
                       THEN height + STARTING_BLOCK ELSE 0
               [] last_processed_block = None /\ STARTING_BLOCK = 0 -> 0
               [] OTHER -> STARTING_BLOCK ]_vars

\* C16 witness: a first run with a negative STARTING_BLOCK at height 0 started
\* at block 0 and not below.
C16_Witness ==
    /\ STARTING_BLOCK < 0
    /\ pc = "live"
    /\ last_tick.kind = "boot"
    /\ last_tick.from = 0
    /\ last_tick.to = 0
    /\ first_start = 0

\* The one broadcast of type "block" of a tick over the range [a, b].
block_broadcast(a, b) == <<[type |-> "block", from_block |-> a, to_block |-> b]>>

\* The envelopes of type "block" among those emitted, each by its type and data.
block_envelopes(out) ==
    LET IsBlock(e) == e.type = "block"
        blocks == SelectSeq(out, IsBlock)
    IN  [k \in DOMAIN blocks |-> [type |-> blocks[k].type] @@ blocks[k].data]

\* C17 (as claimed): a tick that finds the height above current_block
\* dispatches [current_block + 1, height], emits one "block" broadcast with
\* these bounds and sets the checkpoint to the height; a tick that finds the
\* height not advanced dispatches nothing, emits nothing and leaves the
\* checkpoint.
C17_LiveTick ==
    [][ (pc = "live" /\ pc' = "live")
        => /\ (last_tick' # last_tick
               => /\ height > current_block
                  /\ last_tick'.from = current_block + 1
                  /\ last_tick'.to = height
                  /\ block_envelopes(last_tick'.out) = block_broadcast(current_block + 1, height)
                  /\ last_processed_block' = height)
           /\ (height <= current_block
               => UNCHANGED <<last_tick, last_processed_block, handled>>) ]_vars

\* C17 (amended): as C17 when the dispatch returns; when the dispatch raises,
\* the tick emits no broadcast of type "block" and leaves the checkpoint.
C17_LiveTickUnlessRaised ==
    [][ (pc = "live" /\ pc' = "live")
        => /\ (last_tick' # last_tick
               => /\ height > current_block
                  /\ last_tick'.from = current_block + 1
                  /\ last_tick'.to = height
                  /\ IF last_tick'.kind = "error"
                     THEN /\ block_envelopes(last_tick'.out) = <<>>
                          /\ last_processed_block' = last_processed_block
                     ELSE /\ block_envelopes(last_tick'.out) = block_broadcast(current_block + 1, height)
                          /\ last_processed_block' = height)
           /\ (height <= current_block
               => UNCHANGED <<last_tick, last_processed_block, handled>>) ]_vars

\* C17 witness: a tick dispatched a range of two blocks and announced it.
C17_Witness ==
    /\ pc = "live"
    /\ last_tick.kind = "ok"
    /\ last_tick.to = last_tick.from + 1
    /\ block_envelopes(last_tick.out) = block_broadcast(last_tick.from, last_tick.to)
    /\ last_processed_block = last_tick.to

\* The events of the last dispatched range that the dispatcher is to handle: the
\* factory's, and those of the groups in the registry.
in_range ==
    { i \in DOMAIN events :
        /\ events[i].block >= last_tick.from
        /\ events[i].block <= last_tick.to
        /\ \/ events[i].kind = "BettingGroupCreated"
           \/ events[i].group \in known_betting_groups }

\* C18: when the log query of one event type of one group raised during a
\* dispatch, the dispatch returned, and the events of the range that were not
\* handled are all of one type of that one group: the group's other type, the
\* other group and the factory's events were handled.
C18_EventTypeIsolation ==
    last_tick.fault = "query" =>
        /\ last_tick.kind \in {"degraded", "boot_degraded"}
        /\ \A i \in in_range \ handled :
              /\ events[i].group \in FaultyGroups
              /\ events[i].kind \in {"ParticipantRegistered", "ParticipantWithdrawn"}
        /\ \A i, j \in in_range \ handled : events[i].kind = events[j].kind

\* C18 witness: one type's query raised and left an event of the group
\* unhandled, and an event of the group's other type in the range was handled.
C18_Witness ==
    /\ last_tick.fault = "query"
    /\ \E i \in in_range \ handled : \E j \in in_range \cap handled :
          /\ events[j].group = events[i].group
          /\ events[j].kind # events[i].kind
          /\ events[j].kind # "BettingGroupCreated"

\* The reconciler was invoked for g in the last dispatch, after the handlers of
\* every event of g that the dispatch handled.
synced_after_events(g) ==
    \E s \in last_tick.synced :
        /\ s.group = g
        /\ { i \in in_range \cap handled : events[i].group = g
                                           /\ events[i].kind # "BettingGroupCreated" }
              \subseteq s.seen

LowerPairs == { <<lower(u), lower(g)>> : u \in Users, g \in Groups }

InitHandlers ==
    /\ InitChain
    /\ last_processed_block = None
    /\ known_betting_groups = {}
    /\ user_groups \in SUBSET LowerPairs
    /\ group_users \in SUBSET { <<p[2], p[1]>> : p \in LowerPairs }
    /\ InitPoller
    /\ STARTING_BLOCK = 0
    /\ InitPrice
    /\ InitWs
    /\ InitCatalog
    /\ InitHist
    /\ last_sync = no_sync

\* The add_user_to_group / remove_user_from_group calls of a handler: the write,
\* and the second one when the verification disagrees with the event (lines
\* 557-567, 622-632).
handler_writes(agrees) == IF agrees THEN 1 ELSE 2

\* The dispatcher passes a ParticipantRegistered(u, g) event to its handler.
HandleRegistered(u, g) ==
    /\ LET m2 == process_participant_registered(store, g, u)
       IN  /\ user_groups' = m2.user_groups
           /\ group_users' = m2.group_users
    /\ last_sync' = [no_sync EXCEPT
                        !.op = "registered", !.group = g, !.user = u,
                        !.adds = handler_writes(
                                   is_user_registered_in_group_blockchain(u, g))]
    /\ UNCHANGED <<chain_vars, last_processed_block, known_betting_groups,
                   poller_vars, price_vars, ws_vars, catalog_vars, hist_vars>>

\* The dispatcher passes a ParticipantWithdrawn(u, g) event to its handler.
HandleWithdrawn(u, g) ==
    /\ LET m2 == process_participant_withdrawn(store, g, u)
       IN  /\ user_groups' = m2.user_groups
           /\ group_users' = m2.group_users
    /\ last_sync' = [no_sync EXCEPT
                        !.op = "withdrawn", !.group = g, !.user = u,
                        !.removes = handler_writes(
                                   ~is_user_registered_in_group_blockchain(u, g))]
    /\ UNCHANGED <<chain_vars, last_processed_block, known_betting_groups,
                   poller_vars, price_vars, ws_vars, catalog_vars, hist_vars>>

NextHandlers ==
    \/ \E u \in Users, g \in Groups : SyncChainRegister(u, g)
    \/ \E u \in Users, g \in Groups : SyncChainWithdraw(u, g)
    \/ \E u \in Users, g \in Groups : HandleRegistered(u, g)
    \/ \E u \in Users, g \in Groups : HandleWithdrawn(u, g)

SpecHandlers == InitHandlers /\ [][NextHandlers]_vars

\* C20 (as claimed): after the ParticipantRegistered(u, g) handler, g is among
\* the groups of u and u among the users of g; after the ParticipantWithdrawn
\* (u, g) handler neither holds; a handler writes at most twice.
C20_HandlersMatchEvent ==
    /\ last_sync.op = "registered"
       => /\ lower(last_sync.group) \in get_user_groups(store, last_sync.user)
          /\ lower(last_sync.user) \in get_group_users(store, last_sync.group)
          /\ last_sync.adds <= 2
    /\ last_sync.op = "withdrawn"
       => /\ lower(last_sync.group) \notin get_user_groups(store, last_sync.user)
          /\ lower(last_sync.user) \notin get_group_users(store, last_sync.group)
          /\ last_sync.removes <= 2

(***************************************************************************)
(* Properties of the catalog, the event stream and the order of a dispatch *)
(* under SpecCatalog.                                                      *)
(***************************************************************************)

\* The whitespace-separated tokens of a string: its maximal runs of non-blank
\* characters.
Tokens(D) ==
    { SubSeq(D, i, j) : <<i, j>> \in
        { p \in (DOMAIN D) \X (DOMAIN D) :
            /\ p[1] <= p[2]
            /\ \A k \in p[1]..p[2] : D[k] # " "
            /\ (p[1] = 1 \/ D[p[1] - 1] = " ")
            /\ (p[2] = Len(D) \/ D[p[2] + 1] = " ") } }

\* The events the last dispatch passed to a handler, in the order of handling.
handled_in_dispatch ==
    LET IsHandle(x) == x.op = "handle"
        entries == SelectSeq(last_tick.trace, IsHandle)
    IN  [k \in DOMAIN entries |-> entries[k].i]

\* C21: once the TournamentCreated event of address A with description D and
\* n opportunities was handled, A is in the tournament registry and in the
\* list-all index, one record is stored for A with betting_opportunities_count
\* n and the start time, end time, block and transaction of the event, A is in
\* the word set of every lower-cased whitespace-separated token of D, and the
\* dispatch that handled the event emitted one envelope of type "tournament"
\* for A.
C21_TournamentCreatedStored ==
    \A i \in handled :
        events[i].kind = "TournamentCreated" =>
            LET e == events[i]
                A == e.tournament
                rec == get_tournament(catalog, A)
                IsForA(x) == x.type = "tournament" /\ x.data.address = A
            IN  /\ A \in known_tournaments
                /\ A \in tournament_index
                /\ Cardinality({ x \in tournament_hash : x[1] = A }) = 1
                /\ rec # <<>>
                /\ rec.description = e.description
                /\ int(rec.betting_opportunities_count) = Len(e.bettingOpportunities)
                /\ int(rec.start_time) = e.startTime
                /\ int(rec.end_time) = e.endTime
                /\ int(rec.event_block) = e.block
                /\ rec.event_tx = hex(transactionHash(e))
                /\ \A w \in Tokens(e.description) : <<lower(w), A>> \in tournament_word
                /\ (i \in Range(handled_in_dispatch)
                    => Len(SelectSeq(last_tick.out, IsForA)) = 1)

\* C21 witness: a dispatch has just handled the creation of a tournament with
\* the description "W  c" and two opportunities; both words lead to it.
C21_Witness ==
    \E i \in Range(handled_in_dispatch) :
        /\ events[i].kind = "TournamentCreated"
        /\ events[i].description = <<"W", " ", " ", "c">>
        /\ Len(events[i].bettingOpportunities) = 2
        /\ get_tournament(catalog, events[i].tournament).betting_opportunities_count = <<"2">>
        /\ { p[1] : p \in { q \in tournament_word : q[2] = events[i].tournament } }
              = { <<"w">>, <<"c">> }

\* No address holds two records.
records_keyed_by_address ==
    /\ \A x, y \in tournament_hash : x[1] = y[1] => x = y
    /\ \A x, y \in group_hash : x[1] = y[1] => x = y

\* C22: a dispatch of the range that the last dispatch before it processed (the
\* process was stopped before the checkpoint was written, and the chain has not
\* moved) leaves the records, both registries, both list-all indexes, the
\* tournament-to-groups index and both word-index families as they were: no
\* second record for an address, no index entry added.
C22_RedispatchIdempotent ==
    [][ ( /\ pc = "boot" /\ pc' # "boot"
          /\ killed # no_kill
          /\ last_tick'.from = killed.from
          /\ last_tick'.to = killed.to )
        => /\ catalog' = catalog
           /\ records_keyed_by_address' ]_vars

\* C22 witness: a range that holds the creation of a tournament and of a group
\* was dispatched, the process was stopped, and the bootstrap of the next run
\* has dispatched the same range.
C22_Witness ==
    /\ killed # no_kill
    /\ last_tick.kind = "boot"
    /\ last_tick.from = killed.from
    /\ last_tick.to = killed.to
    /\ \E i, j \in Range(handled_in_dispatch) :
          /\ events[i].kind = "TournamentCreated"
          /\ events[j].kind = "BettingGroupCreated"
    /\ tournament_word # {}
    /\ group_word # {}
    /\ tournament_groups # {}

\* The broadcast type of each kind of chain event.
C26_TypeOf ==
    [TournamentCreated |-> "tournament",
     BettingGroupCreated |-> "group",
     BettingOpportunityStartTimeUpdated |-> "betting_opportunity_updated",
     ParticipantRegistered |-> "participant_registered",
     ParticipantWithdrawn |-> "participant_withdrawn",
     ResultsProcessed |-> "results_processed",
     BettingGroupFinalized |-> "betting_group_finalized",
     BettingGroupCancelled |-> "betting_group_cancelled"]

\* The envelopes of a dispatch that are not of type "block".
event_envelopes(out) ==
    LET NotBlock(e) == e.type # "block"
    IN  SelectSeq(out, NotBlock)

\* C26: the envelopes a dispatch emits for chain events are, in order, one per
\* event it passed to a handler, of the type of the event's kind; a polling
\* range of the Live loop whose dispatch returned has one envelope of type
\* "block", with its bounds; every envelope has id, type, message and
\* timestamp, and its type is one of the ten of the event stream.
C26_EventStreamCoverage ==
    /\ Len(event_envelopes(last_tick.out)) = Len(handled_in_dispatch)
    /\ \A k \in DOMAIN handled_in_dispatch :
          event_envelopes(last_tick.out)[k].type
              = C26_TypeOf[events[handled_in_dispatch[k]].kind]
    /\ last_tick.kind \in {"ok", "degraded", "killed"}
          => block_envelopes(last_tick.out) = block_broadcast(last_tick.from, last_tick.to)
    /\ \A k \in DOMAIN last_tick.out :
          /\ {"id", "type", "message", "timestamp"} \subseteq DOMAIN last_tick.out[k]
          /\ last_tick.out[k].type \in
                {"block", "tournament", "group", "betting_opportunity_updated",
                 "participant_registered", "participant_withdrawn",
                 "results_processed", "betting_group_finalized",
                 "betting_group_cancelled", "system"}

\* C26 witness: a tick of the Live loop handled the creation of a tournament
\* and an event of another kind, and emitted their two envelopes and then the
\* envelope of type "block".
C26_Witness ==
    /\ last_tick.kind = "ok"
    /\ Len(last_tick.out) = 3
    /\ last_tick.out[1].type = "tournament"
    /\ last_tick.out[2].type \notin {"tournament", "block"}
    /\ last_tick.out[3].type = "block"

\* The positions of the trace of the last dispatch at which an event of the
\* kind was handled, and at which a query of a contract's own events was issued.
handle_positions(kind) ==
    { k \in DOMAIN last_tick.trace :
        /\ last_tick.trace[k].op = "handle"
        /\ events[last_tick.trace[k].i].kind = kind }

query_positions ==
    { k \in DOMAIN last_tick.trace : last_tick.trace[k].op = "query" }

\* The contracts whose Created event lies in the range of the last dispatch.
created_in_range ==
    { i \in DOMAIN events :
        /\ events[i].kind \in {"TournamentCreated", "BettingGroupCreated"}
        /\ events[i].block >= last_tick.from
        /\ events[i].block <= last_tick.to }

\* The kinds of events queried from a contract, by the kind of its Created event.
own_kinds(created_kind) ==
    IF created_kind = "TournamentCreated"
    THEN {"BettingOpportunityStartTimeUpdated"}
    ELSE {"ParticipantRegistered", "ParticipantWithdrawn", "ResultsProcessed",
          "BettingGroupFinalized", "BettingGroupCancelled"}

\* C29: in every dispatch the TournamentCreated events are handled first, then
\* the BettingGroupCreated events, and only then are the contracts' own events
\* queried; in a dispatch that returns, every Created event of the range was
\* handled, every contract created in the range has each of its event types
\* queried after that, and each of its own events of the range whose query
\* returned is handled after that query, in the same dispatch.
C29_DispatchOrder ==
    /\ \A a \in handle_positions("TournamentCreated") :
          \A b \in handle_positions("BettingGroupCreated") \cup query_positions : a < b
    /\ \A b \in handle_positions("BettingGroupCreated") :
          \A q \in query_positions : b < q
    /\ last_tick.kind \in {"ok", "degraded", "boot", "boot_degraded", "killed"}
          => \A i \in created_in_range :
                LET address == IF events[i].kind = "TournamentCreated"
                               THEN events[i].tournament ELSE events[i].group
                    created_at == { k \in DOMAIN last_tick.trace :
                                      /\ last_tick.trace[k].op = "handle"
                                      /\ last_tick.trace[k].i = i }
                    asked(kind) == { q \in query_positions :
                                       /\ last_tick.trace[q].kind = kind
                                       /\ last_tick.trace[q].address = address }
                IN  /\ Cardinality(created_at) = 1
                    /\ \A kind \in own_kinds(events[i].kind) :
                          /\ Cardinality(asked(kind)) = 1
                          /\ \A q \in asked(kind) : \A k \in created_at : k < q
                          /\ \A j \in DOMAIN events :
                                ( /\ events[j].kind = kind
                                  /\ emitter(events[j]) = address
                                  /\ events[j].block >= last_tick.from
                                  /\ events[j].block <= last_tick.to
                                  /\ \A q \in asked(kind) : last_tick.trace[q].ok )
                                => \E h \in DOMAIN last_tick.trace :
                                      /\ last_tick.trace[h].op = "handle"
                                      /\ last_tick.trace[h].i = j
                                      /\ \A q \in asked(kind) : q < h

\* C29 witness: one dispatch handled the creation of a contract and then an
\* event of that contract from the same range.
C29_Witness ==
    /\ last_tick.kind \in {"ok", "boot"}
    /\ \E i \in created_in_range : \E j \in Range(handled_in_dispatch) :
          /\ i \in Range(handled_in_dispatch)
          /\ events[j].kind \in own_kinds(events[i].kind)
          /\ emitter(events[j]) = IF events[i].kind = "TournamentCreated"
                                  THEN events[i].tournament ELSE events[i].group
          /\ events[j].block > events[i].block
          /\ events[j].block <= last_tick.to

(***************************************************************************)
(* SpecSearch: the description search of the query surface (db.py lines    *)
(* 178-232) over the catalogs that dispatches build.  A search is one      *)
(* synchronous call; it reads the store and writes nothing.                *)
(***************************************************************************)
\* The queries tried: models.SearchQuery takes a query of one character or more.
SearchTerms == { <<" ">>, <<"W">>, <<"W", " ", "c">>, <<"c", " ", "x">> }

\* POST /tournaments/search and POST /groups/search (main.py lines 279-352).
Search(family, search_term) ==
    /\ last_query' =
          [family |-> family, search_term |-> search_term]
          @@ (IF family = "tournament"
              THEN search_tournaments_by_description(catalog, search_term)
              ELSE search_groups_by_description(catalog, search_term))
    /\ UNCHANGED <<chain_vars, store_vars, poller_vars, last_sync, price_vars, ws_vars,
                   catalog_vars, killed, last_admin, co>>

NextSearch ==
    \/ \E t \in Tournaments, description \in Descriptions :
          MineCreateTournament(t, description, <<>>)
    \/ \E description \in {<<"W", "c">>, <<"c">>} :
          height < MaxCatalogBlock /\ MineCreateGroup(<<"G", "7">>, <<"T", "5">>, description)
    \/ Boot({})
    \/ Tick({})
    \/ \E family \in {"tournament", "group"}, search_term \in SearchTerms :
          Search(family, search_term)

SpecSearch == InitCatalogOnly /\ [][NextSearch]_vars

\* The records of a family whose description has, compared in lower case, one
\* of the tokens of the search term among its tokens; each with its address.
records_matching(hash, search_term) ==
    LET wanted == { lower(w) : w \in Tokens(search_term) }
        Matches(fields) ==
            /\ "description" \in DOMAIN fields
            /\ \E w \in Tokens(fields.description) : lower(w) \in wanted
    IN  { with_address(x[2], x[1]) : x \in { y \in hash : Matches(y[2]) } }

\* C23: a description search returns the stored records whose description has
\* at least one of the tokens of the query among its tokens (tokens are the
\* whitespace-separated words, compared in lower case), each record once: the
\* list is as long as the set of these records; a query with no token returns
\* the empty list.
C23_SearchIsUnionOfMatches ==
    [][ last_query' # last_query
        => LET expected == records_matching(
                               IF last_query'.family = "tournament"
                               THEN tournament_hash ELSE group_hash,
                               last_query'.search_term)
           IN  /\ last_query'.result = expected
               /\ last_query'.len = Cardinality(expected)
               /\ (Tokens(last_query'.search_term) = {} => last_query'.len = 0) ]_vars

\* C23 witness: with a record of description "W  c" and a record of description
\* "c" stored, the search for "c x" has returned both, although no description
\* holds the word x.
C23_Witness ==
    /\ last_query.family = "tournament"
    /\ last_query.search_term = <<"c", " ", "x">>
    /\ last_query.len = 2
    /\ { r.description : r \in last_query.result } = { <<"W", " ", " ", "c">>, <<"c">> }

(***************************************************************************)
(* SpecAdmin: the admin endpoints of main.py (lines 406-468) beside the    *)
(* poller.  Here each request runs to its end before the next step.        *)
(***************************************************************************)
\* The contract and the account an address denotes, whatever its letter case.
contract_at(address) == CHOOSE g \in Groups : lower(g) = lower(address)

account_at(address) == CHOOSE u \in Users : lower(u) = lower(address)

\* GET /admin/verify/user-in-group/{user_address}/{group_address}: the store
\* it leaves and the fields of its response. rpc_ok = FALSE: the contract
\* handle or the isRegistered call raised, and
\* is_user_registered_in_group_blockchain returned False.
verify_user_in_group(m, user_address, group_address, rpc_ok) ==
    LET blockchain_status ==
            IF rpc_ok
            THEN is_user_registered_in_group_blockchain(account_at(user_address),
                                                        contract_at(group_address))
            ELSE FALSE
        redis_status == get_user_groups(m, user_address)
        in_redis == group_address \in redis_status
        after == IF blockchain_status /\ ~in_redis
                 THEN add_user_to_group(m, user_address, group_address).m
                 ELSE IF ~blockchain_status /\ in_redis
                      THEN remove_user_from_group(m, user_address, group_address).m
                      ELSE m
        fixed == (blockchain_status /\ ~in_redis) \/ (~blockchain_status /\ in_redis)
    IN  [m |-> after,
         user_address |-> user_address,
         group_address |-> group_address,
         blockchain_status |-> blockchain_status,
         redis_status |-> in_redis,
         status_match |-> (blockchain_status = in_redis),
         redis_updated |-> fixed]

\* The request, with what the history keeps of it: the store before and after
\* and what isRegistered held on chain.
AdminVerify(user_address, group_address, rpc_ok) ==
    /\ \E r \in { verify_user_in_group(store, user_address, group_address, rpc_ok) } :
          /\ user_groups' = r.m.user_groups
          /\ group_users' = r.m.group_users
          /\ last_admin' = [op |-> "verify", before |-> store, after |-> r.m,
                            rpc_ok |-> rpc_ok,
                            on_chain |-> account_at(user_address)
                                            \in isRegistered[contract_at(group_address)],
                            user_address |-> r.user_address,
                            group_address |-> r.group_address,
                            blockchain_status |-> r.blockchain_status,
                            redis_status |-> r.redis_status,
                            status_match |-> r.status_match,
                            redis_updated |-> r.redis_updated]
    /\ UNCHANGED <<chain_vars, last_processed_block, known_betting_groups, poller_vars,
                   last_sync, price_vars, ws_vars, catalog_vars, killed, last_query, co>>

\* POST /admin/resync/all-groups: the sweep, with the registry it read, the
\* calls that raised, the groups it ran the reconciler for and its count.
AdminResyncAll(faults) ==
    /\ \E v \in { verify_all_user_group_mappings(no_sweep_result,
                                                  known_betting_groups, faults) } :
          /\ user_groups' = v.m.user_groups
          /\ group_users' = v.m.group_users
          /\ last_admin' = [op |-> "resync_all", before |-> store, after |-> v.m,
                            registry |-> known_betting_groups, faults |-> faults,
                            calls |-> v.calls, count |-> v.success_count]
    /\ UNCHANGED <<chain_vars, last_processed_block, known_betting_groups, poller_vars,
                   last_sync, price_vars, ws_vars, catalog_vars, killed, last_query, co>>

\* The participantCount() calls that raise during one sweep.
AdminFaultSets ==
    { {} } \cup { {<<"participantCount", g>>} : g \in Groups }

NextAdmin ==
    \/ \E g \in Groups : MineCreateGroup(g, <<"T", "5">>, <<"c">>)
    \/ \E u \in Users, g \in Groups : MineRegister(u, g)
    \/ \E u \in Users, g \in Groups : MineWithdraw(u, g)
    \/ Boot({})
    \/ Tick({})
    \/ \E faults \in AdminFaultSets : AdminResyncAll(faults)
    \/ \E u \in AnyCase(Users), g \in AnyCase(Groups), rpc_ok \in BOOLEAN :
          AdminVerify(u, g, rpc_ok)

SpecAdmin == InitCatalogOnly /\ [][NextAdmin]_vars

\* C24: a sweep runs the reconciler once for every group of the registry, also
\* for the groups that come after one whose pass failed, and returns the number
\* of groups whose pass reported success (a pass reports a failure when the
\* contract handle or participantCount() raises, and success otherwise).
C24_SweepCountsSuccesses ==
    last_admin.op = "resync_all" =>
        /\ Len(last_admin.calls) = Cardinality(last_admin.registry)
        /\ Range(last_admin.calls) = last_admin.registry
        /\ last_admin.count =
              Cardinality({ g \in last_admin.registry :
                              <<"participantCount", g>> \notin last_admin.faults })

\* C24 witness: a sweep over a registry of two groups in which the pass of one
\* group failed: both groups were reconciled and the count is one.
C24_Witness ==
    /\ last_admin.op = "resync_all"
    /\ Cardinality(last_admin.registry) = 2
    /\ \E g \in last_admin.registry : <<"participantCount", g>> \in last_admin.faults
    /\ Len(last_admin.calls) = 2
    /\ last_admin.count = 1

\* C25 (as claimed): after verify_user_in_group(u, g), for addresses given in
\* any letter case, the cache holds the membership (u, g) if and only if
\* isRegistered(u, g) is true on chain; the redis_status reported is the cache
\* membership before the call, and redis_updated is true exactly when the
\* cache was changed.
C25_VerifyAndFix ==
    last_admin.op = "verify" =>
        /\ is_user_in_group(last_admin.after, last_admin.user_address,
                            last_admin.group_address) = last_admin.on_chain
        /\ last_admin.redis_status
              = is_user_in_group(last_admin.before, last_admin.user_address,
                                 last_admin.group_address)
        /\ last_admin.redis_updated = (last_admin.after # last_admin.before)

(***************************************************************************)
(* SpecCrash: the membership indexes when the process can stop between the *)
(* two Redis commands of add_user_to_group and remove_user_from_group      *)
(* (db.py lines 51-54 and 75-78), followed by reconciliation passes.       *)
(***************************************************************************)
\* add_user_to_group up to and including line 51: the SADD on the forward index.
add_user_to_group_line_51(m, user_address, group_address) ==
    [m EXCEPT !.user_groups = @ \cup {<<lower(user_address), lower(group_address)>>}]

\* remove_user_from_group up to and including line 75: the SREM on the forward index.
remove_user_from_group_line_75(m, user_address, group_address) ==
    [m EXCEPT !.user_groups = @ \ {<<lower(user_address), lower(group_address)>>}]

\* The process stops in add_user_to_group(u, g) after line 51. The call got
\* past line 47, so the forward index did not hold the pair.
CrashInAdd(u, g) ==
    /\ ~is_user_in_group(store, u, g)
    /\ \E m \in { add_user_to_group_line_51(store, u, g) } :
          /\ user_groups' = m.user_groups
          /\ group_users' = m.group_users
    /\ last_sync' = [no_sync EXCEPT !.op = "crash_add", !.group = g, !.user = u]
    /\ UNCHANGED <<chain_vars, last_processed_block, known_betting_groups,
                   poller_vars, price_vars, ws_vars, catalog_vars, hist_vars>>

\* The process stops in remove_user_from_group(u, g) after line 75. The call
\* got past line 71, so the forward index held the pair.
CrashInRemove(u, g) ==
    /\ is_user_in_group(store, u, g)
    /\ \E m \in { remove_user_from_group_line_75(store, u, g) } :
          /\ user_groups' = m.user_groups
          /\ group_users' = m.group_users
    /\ last_sync' = [no_sync EXCEPT !.op = "crash_remove", !.group = g, !.user = u]
    /\ UNCHANGED <<chain_vars, last_processed_block, known_betting_groups,
                   poller_vars, price_vars, ws_vars, catalog_vars, hist_vars>>

NextCrash ==
    \/ \E u \in Users, g \in Groups : SyncChainRegister(u, g)
    \/ \E u \in Users, g \in Groups : SyncChainWithdraw(u, g)
    \/ \E u \in Users, g \in Groups : DbAdd(u, g)
    \/ \E u \in Users, g \in Groups : DbRemove(u, g)
    \/ \E u \in Users, g \in Groups : CrashInAdd(u, g)
    \/ \E u \in Users, g \in Groups : CrashInRemove(u, g)
    \/ \E g \in Groups : SyncPass(g, TRUE, {})
    \/ \E g \in Groups : SyncPass(g, FALSE, {})

SpecCrash == InitSync /\ [][NextCrash]_vars

\* The two indexes hold the same pairs for the group.
indexes_agree_on(m, group_address) ==
    \A u \in LowerSet(Users \cup Strangers) :
        (<<u, lower(group_address)>> \in m.user_groups)
            <=> (<<lower(group_address), u>> \in m.group_users)

\* C27 (as claimed): when the process stopped between the forward-index write
\* and the reverse-index write of an add or a remove of (u, g), so that the two
\* indexes disagree about the pair, the next reconciliation pass for g, with
\* every read succeeding, leaves the two indexes agreeing for every user of g
\* and the cached member set of g equal to the set registered on chain.
C27_CrashRepaired ==
    [][ ( /\ last_sync.op \in {"crash_add", "crash_remove"}
          /\ ~indexes_agree_on(store, last_sync.group)
          /\ last_sync'.op = "sync"
          /\ last_sync'.clean
          /\ last_sync'.group = last_sync.group )
        => ( /\ indexes_agree_on(store, last_sync.group)'
             /\ get_group_users(store, last_sync.group)'
                   = LowerSet(isRegistered[last_sync.group]) ) ]_vars

(***************************************************************************)
(* SpecConc: admin requests as coroutines beside the poller.  A request    *)
(* suspends at its chain reads (blockchain.py lines 805 and 818-826); the  *)
(* code from the last read to the return has no suspension point (the      *)
(* coroutine awaited at line 843 does not wait for anything), so a request *)
(* is a read step, in which the chain answers, and a write step, taken     *)
(* when the event loop resumes it.  Between the two the poller can run a   *)
(* whole tick and the chain can move.  co holds the requests in flight.    *)
(***************************************************************************)
\* The number of admin requests in flight at one time.
MaxCo == 1

\* The account and the group of the interleavings studied: their addresses are
\* their own lower-case forms.
ConcUser == <<"b", "2">>
ConcGroup == <<"h", "8">>

\* sync_user_group_mappings from line 834 on, with the participants read before.
sync_user_group_mappings_from_line_834(m, group_address, participants) ==
    LET added == ensure_participants([m |-> m, ok |-> TRUE, adds |-> 0, removes |-> 0],
                                     participants, group_address)
        all_users_in_group == get_group_users(added.m, group_address)
    IN  remove_stale(added, all_users_in_group, participants, group_address)

\* verify_user_in_group from line 442 on, with the blockchain_status read before.
verify_user_in_group_from_line_442(m, user_address, group_address, blockchain_status) ==
    LET in_redis == group_address \in get_user_groups(m, user_address)
    IN  IF blockchain_status /\ ~in_redis
        THEN add_user_to_group(m, user_address, group_address).m
        ELSE IF ~blockchain_status /\ in_redis
             THEN remove_user_from_group(m, user_address, group_address).m
             ELSE m

\* POST /admin/resync/group/{address} is received, for the address of a group
\* contract of the chain.
AdminResyncGroupBegins(address) ==
    /\ Len(co) < MaxCo
    /\ address \in created_groups
    /\ co' = Append(co, [op |-> "resync_group", todo |-> {address}, at |-> "read",
                         group |-> <<>>, participants |-> <<>>])
    /\ UNCHANGED <<chain_vars, store_vars, poller_vars, last_sync, price_vars, ws_vars,
                   catalog_vars, killed, last_query, last_admin>>

\* POST /admin/resync/all-groups is received: line 877 reads the registry.
AdminResyncAllBegins ==
    /\ Len(co) < MaxCo
    /\ known_betting_groups # {}
    /\ co' = Append(co, [op |-> "resync_all", todo |-> known_betting_groups,
                         at |-> "read", group |-> <<>>, participants |-> <<>>])
    /\ UNCHANGED <<chain_vars, store_vars, poller_vars, last_sync, price_vars, ws_vars,
                   catalog_vars, killed, last_query, last_admin>>

\* GET /admin/verify/user-in-group/... is received.
AdminVerifyBegins(user_address, group_address) ==
    /\ Len(co) < MaxCo
    /\ contract_at(group_address) \in created_groups
    /\ co' = Append(co, [op |-> "verify", at |-> "read", user |-> user_address,
                         group |-> group_address, blockchain_status |-> FALSE])
    /\ UNCHANGED <<chain_vars, store_vars, poller_vars, last_sync, price_vars, ws_vars,
                   catalog_vars, killed, last_query, last_admin>>

\* The chain answers the reads of request k: lines 818-832 for the next group
\* of a resync, line 805 for a verification.
CoRead(k) ==
    /\ k \in DOMAIN co
    /\ co[k].at = "read"
    /\ co' = [co EXCEPT ![k] =
                IF co[k].op = "verify"
                THEN [@ EXCEPT !.at = "write",
                               !.blockchain_status =
                                   is_user_registered_in_group_blockchain(
                                       account_at(co[k].user), contract_at(co[k].group))]
                ELSE LET group_address == CHOOSE g \in co[k].todo : TRUE
                     IN  [@ EXCEPT !.at = "write",
                                   !.group = group_address,
                                   !.participants =
                                       fetch_participants(group_address, 1, {})]]
    /\ UNCHANGED <<chain_vars, store_vars, poller_vars, last_sync, price_vars, ws_vars,
                   catalog_vars, killed, last_query, last_admin>>

\* The event loop resumes request k: it runs to its next read or to its end.
CoWrite(k) ==
    /\ k \in DOMAIN co
    /\ co[k].at = "write"
    /\ \E m \in { IF co[k].op = "verify"
                  THEN verify_user_in_group_from_line_442(
                           store, co[k].user, co[k].group, co[k].blockchain_status)
                  ELSE sync_user_group_mappings_from_line_834(
                           store, co[k].group, co[k].participants).m } :
          /\ user_groups' = m.user_groups
          /\ group_users' = m.group_users
    /\ co' = IF co[k].op # "verify" /\ co[k].todo # {co[k].group}
             THEN [co EXCEPT ![k] = [@ EXCEPT !.at = "read",
                                              !.todo = @ \ {co[k].group}]]
             ELSE SubSeq(co, 1, k - 1) \o SubSeq(co, k + 1, Len(co))
    /\ last_admin' = [op |-> co[k].op]
    /\ UNCHANGED <<chain_vars, last_processed_block, known_betting_groups, poller_vars,
                   last_sync, price_vars, ws_vars, catalog_vars, killed, last_query>>

NextConc ==
    \/ MineCreateGroup(ConcGroup, <<"T", "5">>, <<"c">>)
    \/ MineRegister(ConcUser, ConcGroup)
    \/ MineWithdraw(ConcUser, ConcGroup)
    \/ Boot({})
    \/ Tick({})
    \/ AdminResyncGroupBegins(ConcGroup)
    \/ AdminResyncAllBegins
    \/ AdminVerifyBegins(ConcUser, ConcGroup)
    \/ \E k \in 1..MaxCo : CoRead(k)
    \/ \E k \in 1..MaxCo : CoWrite(k)

SpecConc == InitCatalogOnly /\ [][NextConc]_vars

\* C28 (as claimed): under any interleaving of the poller's tick with admin
\* requests, once every request has completed and the poller has processed the
\* chain up to its height, the cached member set of every known group is its
\* on-chain registered set and the two indexes agree: no registered user is
\* missing and no withdrawn user is present.
C28_ConvergesUnderInterleaving ==
    (co = <<>> /\ pc = "live" /\ current_block = height) =>
        \A g \in known_betting_groups :
            /\ get_group_users(store, g) = LowerSet(isRegistered[g])
            /\ indexes_agree_on(store, g)

(***************************************************************************)
(* SpecBoot: Bootstrapping and CatchingUp (blockchain.py lines 189-227)    *)
(* statement by statement, with the chain moving in between: the height is *)
(* read at line 190, and lines 219 and 226 suspend the task.               *)
(***************************************************************************)
\* A bootstrap that saves the height of the chain at the time of the save.
bootstrap_checkpoint_at_save_time(current, latest) == latest

\* Line 222: the checkpoint the bootstrap saves; current is the local
\* current_block, latest the height of the chain when the line runs.
bootstrap_checkpoint(current, latest) == current

\* Line 190: the height is read.
BootObserve ==
    /\ pc = "boot"
    /\ pc' = "catching_up"
    /\ current_block' = height
    /\ UNCHANGED <<chain_vars, store_vars, STARTING_BLOCK, handled, first_start,
                   last_tick, last_sync, price_vars, ws_vars, catalog_vars, hist_vars>>

\* Lines 194-219: the start block and the dispatch of [start_block, current_block].
BootDispatch(faults) ==
    /\ pc = "catching_up"
    /\ LET start_block == start_block_of(last_processed_block, STARTING_BLOCK,
                                         current_block)
       IN  /\ first_start' = IF first_start = None THEN start_block ELSE first_start
           /\ IF start_block <= current_block
              THEN \E r \in { process_past_events(dispatch_state, current_block,
                                                  start_block, faults) } :
                      /\ CatalogBecomes(r.d.c)
                      /\ handled' = r.d.handled
                      /\ user_groups' = r.d.m.user_groups
                      /\ group_users' = r.d.m.group_users
                      /\ pc' = IF r.raised THEN "dead" ELSE "dispatched"
                      /\ last_tick' = [no_tick EXCEPT
                                          !.kind = IF r.raised THEN "boot_failed"
                                                   ELSE "boot",
                                          !.from = start_block, !.to = current_block,
                                          !.out = r.d.out, !.trace = r.d.trace,
                                          !.fault = fault_kind(faults),
                                          !.synced = r.d.synced]
              ELSE /\ pc' = "dispatched"
                   /\ UNCHANGED <<known_betting_groups, user_groups, group_users,
                                  catalog_vars, handled, last_tick>>
    /\ UNCHANGED <<chain_vars, last_processed_block, STARTING_BLOCK, current_block,
                   last_sync, price_vars, ws_vars, hist_vars>>

\* Line 222: save_last_processed_block(current_block).
BootSave ==
    /\ pc = "dispatched"
    /\ pc' = "saved"
    /\ last_processed_block' = bootstrap_checkpoint(current_block, height)
    /\ UNCHANGED <<chain_vars, known_betting_groups, user_groups, group_users,
                   STARTING_BLOCK, current_block, handled, first_start, last_tick,
                   last_sync, price_vars, ws_vars, catalog_vars, hist_vars>>

\* Line 226: the sweep; after it the task enters the Live loop.
BootSweep ==
    /\ pc = "saved"
    /\ pc' = "live"
    /\ \E v \in { verify_all_user_group_mappings(no_sweep_result,
                                                  known_betting_groups, {}) } :
          /\ user_groups' = v.m.user_groups
          /\ group_users' = v.m.group_users
          /\ last_admin' = [op |-> "boot_sweep", before |-> store, after |-> v.m,
                            registry |-> known_betting_groups, faults |-> {},
                            calls |-> v.calls, count |-> v.success_count]
    /\ UNCHANGED <<chain_vars, last_processed_block, known_betting_groups,
                   STARTING_BLOCK, current_block, handled, first_start, last_tick,
                   last_sync, price_vars, ws_vars, catalog_vars, killed, last_query, co>>

NextBoot ==
    \/ \E g \in Groups : MineCreateGroup(g, <<"T", "5">>, <<"c">>)
    \/ \E g \in Groups : MineRegister(<<"b", "2">>, g)
    \/ \E g \in Groups : MineWithdraw(<<"b", "2">>, g)
    \/ BootObserve
    \/ \E faults \in { {}, {<<"BettingGroupCreated", FACTORY_CONTRACT_ADDRESS>>} } :
          BootDispatch(faults)
    \/ BootSave
    \/ BootSweep
    \/ Tick({})
    \/ Restart

SpecBoot == Init /\ [][NextBoot]_vars

\* The events of blocks a..b that the factory or a contract of the registry emitted.
events_to_dispatch(a, b, registry) ==
    { i \in DOMAIN events :
        /\ events[i].block >= a
        /\ events[i].block <= b
        /\ emitter(events[i]) \in {FACTORY_CONTRACT_ADDRESS} \cup registry }

\* C30: the bootstrap reads the height once; it then makes one dispatch of the
\* range from the start block to that height, or none when the start block is
\* above that height; then it sets the checkpoint to the height it read, also
\* when the chain has grown since; then it runs the reconciler once for every
\* known group; only then does the Live loop run.
C30_CatchingUpOrder ==
    [][ /\ (pc = "boot" /\ pc' # pc)
           => /\ pc' = "catching_up"
              /\ current_block' = height
              /\ UNCHANGED <<last_processed_block, handled, last_tick>>
        /\ (pc = "catching_up" /\ pc' # pc)
           => LET start_block == start_block_of(last_processed_block, STARTING_BLOCK,
                                                current_block)
              IN  /\ UNCHANGED <<last_processed_block, current_block, last_admin>>
                  /\ IF start_block <= current_block
                     THEN /\ last_tick'.from = start_block
                          /\ last_tick'.to = current_block
                          /\ pc' = "dispatched"
                             => events_to_dispatch(start_block, current_block,
                                                   known_betting_groups') \subseteq handled'
                     ELSE /\ pc' = "dispatched"
                          /\ UNCHANGED <<handled, last_tick, store_vars, catalog_vars>>
        /\ (pc = "dispatched" /\ pc' # pc)
           => /\ pc' = "saved"
              /\ last_processed_block' = current_block
              /\ UNCHANGED <<current_block, handled, last_tick, last_admin>>
        /\ (pc = "saved" /\ pc' # pc)
           => /\ pc' = "live"
              /\ last_admin'.op = "boot_sweep"
              /\ Range(last_admin'.calls) = known_betting_groups
              /\ Len(last_admin'.calls) = Cardinality(known_betting_groups)
              /\ UNCHANGED <<last_processed_block, current_block, handled, last_tick>>
        /\ (pc' = "live" /\ pc # "live") => pc = "saved"
        /\ (pc # "live" /\ last_tick' # last_tick)
           => last_tick'.kind \in {"none", "boot", "boot_failed"} ]_vars

\* C30 witness: the bootstrap dispatched a range, the chain grew while it ran,
\* the checkpoint is the height read at the start, the sweep ran for the known
\* groups, and the Live loop is about to start.
C30_Witness ==
    /\ pc = "live"
    /\ last_tick.kind = "boot"
    /\ last_tick.to = current_block
    /\ last_processed_block = current_block
    /\ current_block < height
    /\ last_admin.op = "boot_sweep"
    /\ last_admin.calls # <<>>

(***************************************************************************)
(* The reconciler under per-index read failures (SpecSync)                 *)
(***************************************************************************)
\* The participants a pass finds registered: those at the indexes whose reads
\* did not raise.
found_registered(group_address, failed) ==
    { participantAddresses[group_address][i] :
        i \in { j \in (1..Len(participantAddresses[group_address])) \ failed :
                  participantAddresses[group_address][j] \in isRegistered[group_address] } }

\* C32: a pass in which the read of one index raised still completes and reports
\* success, and it applies the add of every participant found registered at the
\* other indexes: the adds that change the cache are exactly the found
\* participants the cache did not hold before the pass.
C32_PartialGroundTruth ==
    [][ ( last_sync'.op = "sync" /\ last_sync'.failed # {} )
        => ( /\ last_sync'.ok
             /\ last_sync'.adds
                   = Cardinality(
                       LowerSet(found_registered(last_sync'.group, last_sync'.failed))
                           \ get_group_users(store, last_sync'.group)) ) ]_vars

\* C32 witness: a pass whose read of one index raised has reported success and
\* added a participant that sits at a later index than the failed one.
C32_Witness ==
    /\ last_sync.op = "sync"
    /\ last_sync.ok
    /\ last_sync.adds > 0
    /\ \E i \in last_sync.failed :
          \E j \in (i + 1)..Len(participantAddresses[last_sync.group]) :
              participantAddresses[last_sync.group][j] \in isRegistered[last_sync.group]

\* C33 (as claimed): a pass never removes from the cache a user who is
\* registered in the group on chain at the time of the pass.
C33_NoWrongfulRemoval ==
    [][ \A g \in Groups :
          ( last_sync'.op = "sync" /\ last_sync'.group = g )
          => \A u \in isRegistered[g] :
                lower(u) \in get_group_users(store, g)
                    => lower(u) \in get_group_users(store, g)' ]_vars

(***************************************************************************)
(* The handlers that only broadcast (SpecCatalog)                          *)
(***************************************************************************)
BroadcastOnlyKinds ==
    {"BettingOpportunityStartTimeUpdated", "ResultsProcessed",
     "BettingGroupFinalized", "BettingGroupCancelled"}

\* The TournamentCreated log of tournament t: 0 when there is none.
creation_of(t) ==
    IF \E i \in 1..Len(events) :
          events[i].kind = "TournamentCreated" /\ events[i].tournament = t
    THEN CHOOSE i \in 1..Len(events) :
          events[i].kind = "TournamentCreated" /\ events[i].tournament = t
    ELSE 0

\* C34: handling a start-time update, a ResultsProcessed, a finalization or a
\* cancellation in any reachable cache leaves every contract record, registry,
\* word index and membership index as it was and emits one envelope; and the
\* stored record of a tournament whose start-time update was handled still holds
\* the start and end time of its TournamentCreated event.
C34_BroadcastOnlyHandlers ==
    /\ \A i \in 1..Len(events) :
          events[i].kind \in BroadcastOnlyKinds
          => LET d == handle_event(dispatch_state, emitter(events[i]), i)
             IN  /\ d.c = catalog
                 /\ d.m = store
                 /\ Len(d.out) = 1
                 /\ d.out[1].type = event_type_of(events[i].kind)
    /\ \A i \in handled :
          ( /\ events[i].kind = "BettingOpportunityStartTimeUpdated"
            /\ get_tournament(catalog, events[i].tournament) # <<>> )
          => LET created == events[creation_of(events[i].tournament)]
                 stored == get_tournament(catalog, events[i].tournament)
             IN  /\ stored.start_time = str(created.startTime)
                 /\ stored.end_time = str(created.endTime)
                 /\ stored.description = created.description

\* C34 witness: a live tick has handled the start-time update of a tournament
\* whose record was stored by an earlier dispatch.
C34_Witness ==
    /\ last_tick.kind = "ok"
    /\ \E i \in Range(handled_in_dispatch) :
          /\ events[i].kind = "BettingOpportunityStartTimeUpdated"
          /\ get_tournament(catalog, events[i].tournament) # <<>>
          /\ creation_of(events[i].tournament) \notin Range(handled_in_dispatch)

(***************************************************************************)
(* db.py and main.py: the list accessors                                   *)
(***************************************************************************)
\* str.split(sep): the pieces between the separators, in order; word is the
\* piece being read.
RECURSIVE split_at(_, _, _)
split_at(s, sep, word) ==
    IF s = <<>>
    THEN <<word>>
    ELSE IF Head(s) = sep
         THEN <<word>> \o split_at(Tail(s), sep, <<>>)
         ELSE split_at(Tail(s), sep, Append(word, Head(s)))

\* get_tournament_groups(tournament_address): the stored mapping of every member
\* of tournament:<address>:groups that has one, with the key "address" added.
get_tournament_groups(c, tournament_address) ==
    LET group_addresses == { p[2] : p \in { q \in c.tournament_groups :
                                                q[1] = tournament_address } }
    IN  { with_address(get_group(c, address), address) :
            address \in { a \in group_addresses : get_group(c, a) # <<>> } }

\* main.get_user_groups_api(address): the stored mapping of every group of
\* user:groups:<address> that has one, its numbers parsed.
get_user_groups_api(c, m, address) ==
    LET user_group_addresses == get_user_groups(m, address)
        entry(group_address) ==
            LET group_data == with_address(get_group(c, group_address), group_address)
                parsed == [registration_end_time |-> int(group_data.registration_end_time),
                           general_closing_window |-> int(group_data.general_closing_window),
                           prize_distribution |->
                               LET pieces == split_at(group_data.prize_distribution, ",", <<>>)
                               IN  [k \in DOMAIN pieces |-> int(pieces[k])]]
                block == IF "event_block" \in DOMAIN group_data
                         THEN [event_block |-> int(group_data.event_block)]
                         ELSE <<>>
            IN  block @@ parsed @@ group_data
    IN  [user_address |-> address,
         groups |-> { entry(group_address) :
                        group_address \in { a \in user_group_addresses :
                                               get_group(c, a) # <<>> } }]

\* Every address the chain hands to the service.
ChainAddresses == Tournaments \cup Groups

\* C35 (as claimed): every registry, list-all index, tournament-to-groups index
\* and word-index member is a lower-cased address, and a record written under
\* the address as the chain delivered it is the record read under the
\* lower-cased address.
C35_LowerCaseKeys ==
    /\ \A a \in known_tournaments \cup known_betting_groups
                \cup tournament_index \cup group_index : a = lower(a)
    /\ \A p \in tournament_groups : p[1] = lower(p[1]) /\ p[2] = lower(p[2])
    /\ \A p \in tournament_word \cup group_word : p[2] = lower(p[2])
    /\ \A a \in ChainAddresses :
          /\ get_tournament(catalog, lower(a)) = get_tournament(catalog, a)
          /\ get_group(catalog, lower(a)) = get_group(catalog, a)

\* C36 (as claimed): when the cache holds the membership (u, g) and a record of
\* g stored by the BettingGroupCreated handler, the groups listed for u hold
\* the record of g.
C36_UserGroupsComplete ==
    \A u \in Users, g \in Groups :
        ( /\ lower(g) \in get_user_groups(store, u)
          /\ get_group(catalog, g) # <<>> )
        => \E x \in get_user_groups_api(catalog, store, u).groups :
              /\ lower(x.address) = lower(g)
              /\ x.description = get_group(catalog, g).description
              /\ x.tournament_address = get_group(catalog, g).tournament_address

\* C37: once the BettingGroupCreated event of group g for tournament t was
\* handled, g is in the betting-group registry and in the list-all index, one
\* record is stored for g with tournament_address t and the description,
\* registration end, prize distribution, closing window, block and transaction
\* of the event, g is in the word set of every lower-cased token of the
\* description, g is in the groups-of-tournament set of t and
\* get_tournament_groups(t) holds the record of g, and the dispatch that handled
\* the event emitted one envelope of type "group" for g.
C37_GroupCreatedStored ==
    \A i \in handled :
        events[i].kind = "BettingGroupCreated" =>
            LET e == events[i]
                g == e.group
                t == e.tournament
                rec == get_group(catalog, g)
                IsForG(x) == x.type = "group" /\ x.data.address = g
            IN  /\ g \in known_betting_groups
                /\ g \in group_index
                /\ Cardinality({ x \in group_hash : x[1] = g }) = 1
                /\ rec # <<>>
                /\ rec.tournament_address = t
                /\ rec.description = e.description
                /\ int(rec.registration_end_time) = e.registrationEndTime
                /\ LET pieces == split_at(rec.prize_distribution, ",", <<>>)
                   IN  [k \in DOMAIN pieces |-> int(pieces[k])] = e.prizeDistribution
                /\ int(rec.general_closing_window) = e.generalClosingWindowInSeconds
                /\ int(rec.event_block) = e.block
                /\ rec.event_tx = hex(transactionHash(e))
                /\ \A w \in Tokens(e.description) : <<lower(w), g>> \in group_word
                /\ <<t, g>> \in tournament_groups
                /\ with_address(rec, g) \in get_tournament_groups(catalog, t)
                /\ (i \in Range(handled_in_dispatch)
                    => Len(SelectSeq(last_tick.out, IsForG)) = 1)

\* C37 witness: a dispatch has just handled the creation of a group with the
\* description "Wc" for tournament T5, and the groups of T5 hold its record.
C37_Witness ==
    \E i \in Range(handled_in_dispatch) :
        /\ events[i].kind = "BettingGroupCreated"
        /\ events[i].description = <<"W", "c">>
        /\ get_group(catalog, events[i].group).prize_distribution
              = <<"6", "0", ",", "4", "0">>
        /\ \E x \in get_tournament_groups(catalog, events[i].tournament) :
              x.address = events[i].group
        /\ <<<<"w", "c">>, events[i].group>> \in group_word

(***************************************************************************)
(* SpecAppend: the registries and records under dispatches (first, failed, *)
(* killed and repeated ones), restarts, sweeps and admin operations        *)
(***************************************************************************)
NextAppend ==
    \/ \E t \in Tournaments :
          MineCreateTournament(t, <<"W", " ", " ", "c">>, <<"o1", "o2">>)
    \/ height < MaxCatalogBlock /\ MineCreateGroup(<<"G", "7">>, <<"T", "5">>, <<"W", "c">>)
    \/ height < MaxCatalogBlock /\ MineRegister(<<"b", "2">>, <<"G", "7">>)
    \/ \E faults \in { {}, {<<"BettingGroupCreated", FACTORY_CONTRACT_ADDRESS>>} } :
          Boot(faults)
    \/ \E faults \in { {}, {<<"BettingGroupCreated", FACTORY_CONTRACT_ADDRESS>>} } :
          Tick(faults)
    \/ TickKilled
    \/ Restart
    \/ AdminResyncAll({})
    \/ \E rpc_ok \in BOOLEAN : AdminVerify(<<"b", "2">>, <<"g", "7">>, rpc_ok)

SpecAppend == InitCatalogOnly /\ [][NextAppend]_vars

\* The provenance fields of a record: the block and transaction of its event.
Provenance == {"event_block", "event_tx"}

\* Every record of hash has a record of the same address in later whose fields
\* other than provenance are the same.
records_kept(hash, later) ==
    \A x \in hash :
        \E y \in later :
            /\ y[1] = x[1]
            /\ DOMAIN y[2] \ Provenance = DOMAIN x[2] \ Provenance
            /\ \A f \in DOMAIN x[2] \ Provenance : y[2][f] = x[2][f]

\* C38: no step of the service (a dispatch, a reconciliation sweep, an admin
\* operation, a restart) takes an address out of the tournament registry or the
\* betting-group registry, deletes a contract record, or changes a field other
\* than provenance of a stored record.
C38_AppendOnlyDiscovery ==
    [][ /\ known_tournaments \subseteq known_tournaments'
        /\ known_betting_groups \subseteq known_betting_groups'
        /\ records_kept(tournament_hash, tournament_hash')
        /\ records_kept(group_hash, group_hash') ]_vars

\* C38 witness: two contracts were created and dispatched, the process was
\* stopped before the checkpoint was written, the bootstrap of the next run has
\* dispatched the range again, and an admin sweep has run since.
C38_Witness ==
    /\ killed # no_kill
    /\ last_tick.kind = "boot"
    /\ last_tick.from = killed.from
    /\ Len(handled_in_dispatch) = 2
    /\ Cardinality(tournament_hash) + Cardinality(group_hash) = 2
    /\ last_admin.op = "resync_all"

(***************************************************************************)
(* SpecPayload: the price cache under every payload the price API can send *)
(***************************************************************************)
\* The responses of SpecPrice, and a 200 whose ethereum.usd is NaN or a string.
Payloads ==
    Responses \cup { [status |-> 200, has_usd |-> TRUE, usd |-> v] : v \in {NaN, Text} }

\* The replies to the attempts of one call: any reply, then the same reply to
\* every retry.
PayloadSeqs == { <<first, then, then>> : first \in Payloads, then \in Payloads }

NextPayload ==
    \/ \E responses \in PayloadSeqs : GetPrice(responses)
    \/ \E dt \in TimeSteps : Advance(dt)

SpecPayload == InitPriceOnly /\ [][NextPayload]_vars

\* C39 (as claimed): the cached price is absent or a number greater than zero,
\* and a call leaves the cache entry as it was unless one of its attempts
\* fetched such a number, which is then the cached price.
C39_CachedPriceValid ==
    /\ eth_price_cache.price # None => positive_number(eth_price_cache.price)
    /\ (last_price.called /\ eth_price_cache # last_price.before)
       => /\ last_price.first_ok # 0
          /\ eth_price_cache.price = last_price.result
          /\ eth_price_cache.timestamp = last_price.at

(***************************************************************************)
(* SpecEnrich: the Live loop with the gas lookups of the handlers: the     *)
(* receipt can be read or not, and the price API answers the price calls   *)
(* of a dispatch with a price, or with failures only.                      *)
(***************************************************************************)
EnrichResponses ==
    { [k \in 1..max_retries |-> [status |-> 500, has_usd |-> FALSE, usd |-> 0]],
      [k \in 1..max_retries |-> [status |-> 200, has_usd |-> FALSE, usd |-> 0]],
      [k \in 1..max_retries |->
          IF k = 1 THEN [status |-> 429, has_usd |-> FALSE, usd |-> 0]
          ELSE [status |-> 200, has_usd |-> TRUE, usd |-> 2]] }

\* What the handlers of a dispatch could not get: the receipt, the price, or nothing.
missing_enrichment(gas) ==
    IF ~gas.ok THEN "receipt"
    ELSE IF gas.calls # <<>> /\ gas.calls[1].result = None THEN "price"
    ELSE "none"

\* Lines 230-244: one pass of the Live loop, every get_logs call succeeding.
TickEnrich(ok, responses) ==
    /\ pc = "live"
    /\ height > current_block
    /\ LET gas == [ok |-> ok,
                   calls |-> price_calls(eth_price_cache, now, responses, Len(events)),
                   cache |-> eth_price_cache, now |-> now]
       IN  \E r \in { process_new_events([dispatch_state EXCEPT !.gas = gas],
                                             current_block + 1, height, {}) } :
           LET a == after_dispatch(current_block, last_processed_block,
                                   height, r.raised)
           IN  /\ CatalogBecomes(r.d.c)
               /\ handled' = r.d.handled
               /\ user_groups' = r.d.m.user_groups
               /\ group_users' = r.d.m.group_users
               /\ current_block' = a.current_block
               /\ last_processed_block' = a.last_processed_block
               /\ eth_price_cache' = r.d.gas.cache
               /\ now' = r.d.gas.now
               /\ last_tick' = [kind |-> IF r.raised THEN "error" ELSE "ok",
                                from |-> current_block + 1, to |-> height,
                                retry |-> last_tick.kind = "error",
                                out |-> r.d.out, fault |-> missing_enrichment(gas),
                                synced |-> r.d.synced, trace |-> r.d.trace]
    /\ pc' = pc
    /\ UNCHANGED <<chain_vars, STARTING_BLOCK, first_start, last_sync, last_price,
                   ws_vars, hist_vars>>

NextEnrich ==
    \/ \E t \in Tournaments, a \in TournamentArgs :
          MineCreateTournament(t, a.description, a.bettingOpportunities)
    \/ \E g \in Groups :
          height < MaxCatalogBlock /\ MineCreateGroup(g, <<"T", "5">>, <<"W", "c">>)
    \/ \E t \in Tournaments : MineStartTimeUpdated(t)
    \/ Boot({})
    \/ \E ok \in BOOLEAN, responses \in EnrichResponses : TickEnrich(ok, responses)
    \/ \E dt \in TimeSteps : Advance(dt)

SpecEnrich == InitCatalogOnly /\ [][NextEnrich]_vars

\* The envelopes the last dispatch emitted for the creation of address.
created_envelopes(address) ==
    LET IsFor(x) == x.type \in {"tournament", "group"} /\ x.data.address = address
    IN  SelectSeq(last_tick.out, IsFor)

\* C40: a tick whose handlers could not read the receipt of a transaction, or
\* got no price, does not fail: it ends without an error and moves the
\* checkpoint to the height it read; and for every TournamentCreated and
\* BettingGroupCreated event it handled the address is in its registry, the
\* record is stored and one envelope was emitted, which holds no gas_info when
\* the receipt could not be read and a gas_info whose gas_cost_usd and
\* eth_price_usd are None when there was no price.
C40_OptionalEnrichment ==
    last_tick.fault \in {"receipt", "price"}
    => /\ last_tick.kind = "ok"
       /\ last_processed_block = last_tick.to
       /\ pc = "live"
       /\ \A i \in DOMAIN events :
             ( /\ events[i].block \in last_tick.from..last_tick.to
               /\ events[i].kind \in {"TournamentCreated", "BettingGroupCreated"} )
             => LET e == events[i]
                    tournament == e.kind = "TournamentCreated"
                    address == IF tournament THEN e.tournament ELSE e.group
                    rec == IF tournament THEN get_tournament(catalog, address)
                           ELSE get_group(catalog, address)
                    sent == created_envelopes(address)
                IN  /\ i \in handled
                    /\ address \in (IF tournament THEN known_tournaments
                                     ELSE known_betting_groups)
                    /\ rec # <<>>
                    /\ rec.description = e.description
                    /\ rec.event_tx = hex(transactionHash(e))
                    /\ Len(sent) = 1
                    /\ sent[1].type = event_type_of(e.kind)
                    /\ sent[1].data.description = e.description
                    /\ IF last_tick.fault = "receipt"
                       THEN "gas_info" \notin DOMAIN sent[1].data
                       ELSE /\ "gas_info" \in DOMAIN sent[1].data
                            /\ sent[1].data.gas_info.gas_cost_usd = None
                            /\ sent[1].data.gas_info.eth_price_usd = None

\* C40 witness: one tick has handled the creation of a tournament and of a
\* group while the price API failed and no price was cached: both records are
\* stored and both envelopes hold a gas_info without a price.
C40_Witness ==
    /\ last_tick.fault = "price"
    /\ last_tick.kind = "ok"
    /\ \E i, j \in Range(handled_in_dispatch) :
          /\ events[i].kind = "TournamentCreated"
          /\ events[j].kind = "BettingGroupCreated"
          /\ get_tournament(catalog, events[i].tournament) # <<>>
          /\ get_group(catalog, events[j].group) # <<>>
          /\ created_envelopes(events[i].tournament)[1].data.gas_info.eth_price_usd = None
          /\ created_envelopes(events[j].group)[1].data.gas_info.gas_cost_usd = None

(***************************************************************************)
(* SpecLive: one run of watch_events, never stopped from outside, on a     *)
(* chain that grows. The Live loop sleeps 10 seconds and runs again for    *)
(* ever (lines 230-244), so a tick is always taken again; that the         *)
(* dispatch eventually stops failing is the weak fairness of the tick      *)
(* whose dispatch returns. The calls that raise are the chain calls of     *)
(* FaultSets; the store answers every call, as in the other                *)
(* specifications.                                                         *)
(***************************************************************************)
\* A tick that found new blocks and whose process_new_events returned: line 236
\* is reached and current_block becomes the height read at line 232.
TickReturns ==
    /\ pc = "live"
    /\ height > current_block
    /\ current_block' = height

NextLive ==
    \/ \E g \in Groups : MineCreateGroup(g, <<"T", "5">>, <<"c">>)
    \/ \E g \in Groups : MineRegister(<<"b", "2">>, g)
    \/ \E g \in Groups : MineWithdraw(<<"b", "2">>, g)
    \/ \E faults \in FaultSets : Boot(faults)
    \/ \E faults \in FaultSets : Tick(faults)

SpecLive == Init /\ [][NextLive]_vars /\ WF_current_block(TickReturns)

\* C31: no tick takes the task out of the Live loop, whatever raises in it; and
\* once the loop runs and the chain has reached height H, the stored checkpoint
\* is eventually H or more.
C31_PollerLiveness ==
    /\ [][pc = "live" => pc' = "live"]_vars
    /\ \A H \in 0..MaxBlock :
          (pc = "live" /\ height >= H) ~> (last_processed_block >= H)

\* C31 witness: a tick failed and left the checkpoint behind the chain, the
\* next tick dispatched the same range again and the checkpoint is at the
\* height of the chain, which is the bound of the model.
C31_Witness ==
    /\ pc = "live"
    /\ last_tick.kind = "ok"
    /\ last_tick.retry
    /\ height = MaxBlock
    /\ last_processed_block = height

====
